---- MODULE Spec2Model ----
(***************************************************************************)
(* The terminal chat client llm-chat.py: the two streaming decoders        *)
(* (AnthropicAPI / OpenaiAPI .user_query_streamed), the command processor   *)
(* (process_prompt), the session log (log_message / restore_chat_history)  *)
(* and the session loop (main).                                            *)
(*                                                                         *)
(* Python str and bytes values are TLA+ strings (ASCII only), indexed from *)
(* 1; Python's 0-based results (find) are kept 0-based.                    *)
(***************************************************************************)
EXTENDS Integers, Sequences, FiniteSets, TLC

VARIABLES
    api,        \* decoder: which client class runs ("openai" | "anthropic")
    request,    \* decoder: the `data` of the request sent last, NoRequest before
    body,       \* decoder: the whole HTTP response body behind fh
    pos,        \* decoder: number of bytes of body already returned by fh.read
    buffer,     \* decoder: the local `buffer`
    scan,       \* decoder: iterations of `for _ in range(100)` done since the last read
    gen,        \* decoder: generator position: "idle" | "read" | "scan" | "done" | "raised"
    emitted,    \* decoder: the fragments yielded so far, in order
    exc,        \* the exception that left the generator or the process ("" when none)
    history,    \* ChatContext.history
    files,      \* ChatContext.files
    clipboard,  \* what set_clipboard last handed to a clipboard program
    prompt,     \* main: the prompt read last
    ret,        \* main: (prompt_modified, info_message) of the last process_prompt, <<>> before
    result,     \* main: the reply accumulated from the chunks
    response_counter,   \* main: response_counter
    log_disk,   \* the log file on disk: [exists, text]
    args,       \* main: the parsed command line
    pc,         \* main: "prompt" | "stream" | "exit"; the log specification: "write" | "restored"
    todo,       \* the log specification: what is still to be written to the file
    runs,       \* counters of the model: [exchanges]
    httpcache,  \* http-caching.py: the cache directory and the requests made
    sink,       \* set_clipboard: the clipboard programs there are, and its last call
    log_file    \* main: log_file: "None" | "open" | "closed"

decVars == <<api, request, body, pos, buffer, scan, gen, emitted, exc>>

ctxVars == <<history, files, clipboard, prompt, ret>>

mainVars == <<result, response_counter, log_disk, args, pc, todo, httpcache, sink, log_file, runs>>

vars == <<api, request, body, pos, buffer, scan, gen, emitted, exc,
          history, files, clipboard, prompt, ret,
          result, response_counter, log_disk, args, pc, todo, httpcache, sink, log_file, runs>>

\* http-caching.py is not running: no cache directory, no request
NoCache == [meta |-> <<>>, requests |-> <<>>, returned |-> <<>>]

\* set_clipboard was not called, and no clipboard program matters
NoSink == [programs |-> <<>>, calls |-> 0, tried |-> <<>>, returned |-> "none"]

\* no request was sent yet
NoRequest == [model |-> "", messages |-> <<>>]

---------------------------------------------------------------------------
(* Bounds of the model *)

\* Lines per response body drawn by the decoder specification.
MaxLines == 2

(* Program constants *)

\* fh.read(100)
READ_SIZE == 100
\* for _ in range(100)
SCAN_CAP == 100

---------------------------------------------------------------------------
(* Python string primitives *)

CharAt(s, i) == SubSeq(s, i, i)

\* str.startswith
StartsWith(s, p) == Len(s) >= Len(p) /\ SubSeq(s, 1, Len(p)) = p

\* bytes.find / str.find of one character: 0-based index, -1 when absent
Find(s, c) ==
    LET hits == { i \in 1..Len(s) : CharAt(s, i) = c } IN
    IF hits = {} THEN -1
    ELSE (CHOOSE i \in hits : \A j \in hits : i <= j) - 1

\* s[n:]
DropFirst(s, n) == SubSeq(s, n + 1, Len(s))

\* s[:n]
TakeFirst(s, n) == SubSeq(s, 1, n)

Min(a, b) == IF a <= b THEN a ELSE b

---------------------------------------------------------------------------
(* json.loads, for the JSON texts of the model: objects, arrays, strings   *)
(* with the escapes \" \\ \/ \n \t \r, numbers without exponent, true,     *)
(* false, null.  A decoded value is [t, s, items]: t its type, s the text  *)
(* of a string or number, items the members of an object ([k, v] pairs in  *)
(* source order) or the elements of an array.                              *)

JVal(t, s, items) == [t |-> t, s |-> s, items |-> items]
JNull == JVal("null", "", <<>>)
JFail == [ok |-> FALSE, v |-> JNull, i |-> 0]
JOk(v, i) == [ok |-> TRUE, v |-> v, i |-> i]

Whitespace == {" ", "\t", "\n", "\r"}
Digits == {"0", "1", "2", "3", "4", "5", "6", "7", "8", "9"}

RECURSIVE SkipWs(_, _)
SkipWs(s, i) ==
    IF i <= Len(s) /\ CharAt(s, i) \in Whitespace THEN SkipWs(s, i + 1) ELSE i

RECURSIVE SkipDigits(_, _)
SkipDigits(s, i) ==
    IF i <= Len(s) /\ CharAt(s, i) \in Digits THEN SkipDigits(s, i + 1) ELSE i

Unescape(e) ==
    CASE e = "n" -> "\n"
      [] e = "t" -> "\t"
      [] e = "r" -> "\r"
      [] OTHER -> e

\* the characters of a string literal after its opening quote
RECURSIVE ParseChars(_, _, _)
ParseChars(s, i, acc) ==
    IF i > Len(s) THEN JFail
    ELSE LET c == CharAt(s, i) IN
         IF c = "\"" THEN JOk(JVal("str", acc, <<>>), i + 1)
         ELSE IF c = "\\"
              THEN IF i + 1 <= Len(s) /\ CharAt(s, i + 1) \in {"\"", "\\", "/", "n", "t", "r"}
                   THEN ParseChars(s, i + 2, acc \o Unescape(CharAt(s, i + 1)))
                   ELSE JFail
         ELSE IF c \in {"\n", "\t", "\r"} THEN JFail
         ELSE ParseChars(s, i + 1, acc \o c)

\* -?(0|[1-9][0-9]*)(\.[0-9]+)?
ParseNumber(s, i) ==
    LET j == IF CharAt(s, i) = "-" THEN i + 1 ELSE i
        k == IF j <= Len(s) /\ CharAt(s, j) = "0" THEN j + 1 ELSE SkipDigits(s, j)
        f == IF k + 1 <= Len(s) /\ CharAt(s, k) = "." /\ CharAt(s, k + 1) \in Digits
             THEN SkipDigits(s, k + 1)
             ELSE k
    IN  IF k = j THEN JFail ELSE JOk(JVal("num", SubSeq(s, i, f - 1), <<>>), f)

\* the text w stands at position i of s
Literal(s, i, w) == i + Len(w) - 1 <= Len(s) /\ SubSeq(s, i, i + Len(w) - 1) = w

RECURSIVE ParseValue(_, _)
RECURSIVE ParseElements(_, _, _)
RECURSIVE ParseMembers(_, _, _)

\* after "[" or ",": a value, then "," or "]"
ParseElements(s, i, acc) ==
    LET r == ParseValue(s, i) IN
    IF ~r.ok THEN JFail
    ELSE LET j == SkipWs(s, r.i)
             items == Append(acc, r.v)
         IN  IF j > Len(s) THEN JFail
             ELSE IF CharAt(s, j) = "]" THEN JOk(JVal("arr", "", items), j + 1)
             ELSE IF CharAt(s, j) = "," THEN ParseElements(s, SkipWs(s, j + 1), items)
             ELSE JFail

\* after "{" or ",": "key" : value, then "," or "}"
ParseMembers(s, i, acc) ==
    IF i > Len(s) \/ CharAt(s, i) # "\"" THEN JFail
    ELSE LET key == ParseChars(s, i + 1, "") IN
         IF ~key.ok THEN JFail
         ELSE LET c == SkipWs(s, key.i) IN
              IF c > Len(s) \/ CharAt(s, c) # ":" THEN JFail
              ELSE LET r == ParseValue(s, SkipWs(s, c + 1)) IN
                   IF ~r.ok THEN JFail
                   ELSE LET j == SkipWs(s, r.i)
                            items == Append(acc, [k |-> key.v.s, v |-> r.v])
                        IN  IF j > Len(s) THEN JFail
                            ELSE IF CharAt(s, j) = "}" THEN JOk(JVal("obj", "", items), j + 1)
                            ELSE IF CharAt(s, j) = "," THEN ParseMembers(s, SkipWs(s, j + 1), items)
                            ELSE JFail

ParseValue(s, i) ==
    IF i > Len(s) THEN JFail
    ELSE LET c == CharAt(s, i) IN
         IF c = "\"" THEN ParseChars(s, i + 1, "")
         ELSE IF c = "{"
              THEN LET j == SkipWs(s, i + 1) IN
                   IF j <= Len(s) /\ CharAt(s, j) = "}"
                   THEN JOk(JVal("obj", "", <<>>), j + 1)
                   ELSE ParseMembers(s, j, <<>>)
         ELSE IF c = "["
              THEN LET j == SkipWs(s, i + 1) IN
                   IF j <= Len(s) /\ CharAt(s, j) = "]"
                   THEN JOk(JVal("arr", "", <<>>), j + 1)
                   ELSE ParseElements(s, j, <<>>)
         ELSE IF Literal(s, i, "null") THEN JOk(JNull, i + 4)
         ELSE IF Literal(s, i, "true") THEN JOk(JVal("bool", "true", <<>>), i + 4)
         ELSE IF Literal(s, i, "false") THEN JOk(JVal("bool", "false", <<>>), i + 5)
         ELSE IF c = "-" \/ c \in Digits THEN ParseNumber(s, i)
         ELSE JFail

\* json.loads(s): [ok |-> FALSE] stands for json.JSONDecodeError
JsonLoads(s) ==
    LET r == ParseValue(s, SkipWs(s, 1)) IN
    IF r.ok /\ SkipWs(s, r.i) = Len(s) + 1
    THEN [ok |-> TRUE, v |-> r.v]
    ELSE [ok |-> FALSE, v |-> JNull]

\* key in d
HasKey(d, key) == \E j \in 1..Len(d.items) : d.items[j].k = key

\* d[key] for a key that is present (the last occurrence wins, as in a dict)
GetKey(d, key) ==
    LET j == CHOOSE j \in 1..Len(d.items) :
                 /\ d.items[j].k = key
                 /\ \A m \in (j + 1)..Len(d.items) : d.items[m].k # key
    IN  d.items[j].v

\* bool(v)
Truthy(v) ==
    CASE v.t \in {"null", "none"} -> FALSE
      [] v.t = "bool" -> v.s = "true"
      [] v.t = "str" -> v.s # ""
      [] v.t = "num" -> v.s \notin {"0", "-0", "0.0", "-0.0"}
      [] OTHER -> Len(v.items) > 0
---------------------------------------------------------------------------
(* The two decoders.  An event outcome is [kind, text, exc]:               *)
(*   "none"  the line yields nothing, "yield" it yields text,              *)
(*   "raise" handling it raises exc.                                       *)

prefix == "data: "

NoFragment == [kind |-> "none", text |-> "", exc |-> ""]
Yield(text) == [kind |-> "yield", text |-> text, exc |-> ""]
Raise(e) == [kind |-> "raise", text |-> "", exc |-> e]

\* A yielded value that is not a str makes the consumer's sys.stdout.write
\* raise TypeError; the model's bodies carry string or null deltas only.
YieldValue(v) == IF v.t = "str" THEN Yield(v.s) ELSE Raise("TypeError")

\* content.get("delta", {}).get("text", "") and `if text: yield text`, for
\* content the outcome of json.loads
AnthropicContent(content) ==
    IF ~content.ok THEN Raise("JSONDecodeError")
    ELSE IF content.v.t # "obj" THEN Raise("AttributeError")
    ELSE LET delta == IF HasKey(content.v, "delta")
                      THEN GetKey(content.v, "delta")
                      ELSE JVal("obj", "", <<>>)
         IN  IF delta.t # "obj" THEN Raise("AttributeError")
             ELSE LET text == IF HasKey(delta, "text")
                              THEN GetKey(delta, "text")
                              ELSE JVal("str", "", <<>>)
                  IN  IF Truthy(text) THEN YieldValue(text) ELSE NoFragment

\* AnthropicAPI.user_query_streamed, the body of `if line.startswith(prefix)`
AnthropicEvent(data) == AnthropicContent(JsonLoads(data))

\* choices[0]["delta"].get("content") for a non-empty list `choices`
OpenaiFirstChoice(first) ==
    IF first.t # "obj" THEN Raise("TypeError")
    ELSE IF ~HasKey(first, "delta") THEN Raise("KeyError")
    ELSE LET delta == GetKey(first, "delta") IN
         IF delta.t # "obj" THEN Raise("AttributeError")
         ELSE IF ~HasKey(delta, "content") THEN NoFragment
         ELSE LET maybe_content == GetKey(delta, "content") IN
              IF maybe_content.t # "null" THEN YieldValue(maybe_content) ELSE NoFragment

\* content["choices"], its first element when it has one, and the yield,
\* for content the outcome of json.loads
OpenaiContent(content) ==
    IF ~content.ok THEN Raise("JSONDecodeError")
    ELSE IF content.v.t # "obj" THEN Raise("TypeError")
    ELSE IF ~HasKey(content.v, "choices") THEN Raise("KeyError")
    ELSE LET choices == GetKey(content.v, "choices") IN
         CASE choices.t = "arr" ->
                  IF Len(choices.items) > 0
                  THEN OpenaiFirstChoice(choices.items[1])
                  ELSE NoFragment
           [] choices.t = "obj" ->
                  IF Len(choices.items) > 0 THEN Raise("KeyError") ELSE NoFragment
           [] choices.t = "str" ->
                  IF Len(choices.s) > 0 THEN Raise("TypeError") ELSE NoFragment
           [] OTHER -> Raise("TypeError")

\* OpenaiAPI.user_query_streamed, the body of `if line.startswith(prefix)`
OpenaiEvent(data) ==
    IF data # "[DONE]" THEN OpenaiContent(JsonLoads(data)) ELSE NoFragment

\* what one extracted line does, for the client class a
LineEvent(a, line) ==
    IF StartsWith(line, prefix)
    THEN LET data == DropFirst(line, Len(prefix)) IN
         IF a = "anthropic" THEN AnthropicEvent(data) ELSE OpenaiEvent(data)
    ELSE NoFragment

\* (faulty variant of AppendRead) buffer = response_body: the unfinished line of the
\* previous read is lost
AppendReadNoCarry(buf, response_body) == response_body

\* buffer += response_body
AppendRead(buf, response_body) == buf \o response_body

\* (faulty variant of GenRead) what is left in the buffer at the end of the body is
\* handled as a last line
GenReadFlushesTail(k) ==
    /\ gen = "read"
    /\ IF pos = Len(body)
       THEN LET ev == LineEvent(api, buffer) IN
            /\ gen' = IF ev.kind = "raise" THEN "raised" ELSE "done"
            /\ exc' = IF ev.kind = "raise" THEN ev.exc ELSE exc
            /\ emitted' = IF ev.kind = "yield" THEN Append(emitted, ev.text) ELSE emitted
            /\ UNCHANGED <<pos, buffer, scan>>
       ELSE /\ k \in 1..Min(READ_SIZE, Len(body) - pos)
            /\ buffer' = AppendRead(buffer, SubSeq(body, pos + 1, pos + k))
            /\ pos' = pos + k
            /\ scan' = 0
            /\ gen' = "scan"
            /\ UNCHANGED <<emitted, exc>>
    /\ UNCHANGED <<api, request, body>>

\* while response_body := fh.read(100): the read returns k bytes,
\* 1 <= k <= 100, or b"" at the end of the body, which ends the generator
GenRead(k) ==
    /\ gen = "read"
    /\ IF pos = Len(body)
       THEN /\ gen' = "done"
            /\ UNCHANGED <<pos, buffer, scan>>
       ELSE /\ k \in 1..Min(READ_SIZE, Len(body) - pos)
            /\ buffer' = AppendRead(buffer, SubSeq(body, pos + 1, pos + k))
            /\ pos' = pos + k
            /\ scan' = 0
            /\ gen' = "scan"
    /\ UNCHANGED <<api, request, body, emitted, exc>>

\* (faulty variant of HandleLine) a line whose handling raises is skipped, as under
\* `try: ... except Exception: pass`
HandleLineSkipBad(maybe_idx, ev) ==
    /\ emitted' = IF ev.kind = "yield" THEN Append(emitted, ev.text) ELSE emitted
    /\ buffer' = DropFirst(buffer, maybe_idx + 1)
    /\ scan' = scan + 1
    /\ UNCHANGED <<gen, exc>>

\* the rest of an iteration whose line, ending at maybe_idx, does ev
HandleLine(maybe_idx, ev) ==
    IF ev.kind = "raise"
    THEN /\ gen' = "raised"
         /\ exc' = ev.exc
         /\ UNCHANGED <<buffer, scan, emitted>>
    ELSE /\ emitted' = IF ev.kind = "yield" THEN Append(emitted, ev.text) ELSE emitted
         /\ buffer' = DropFirst(buffer, maybe_idx + 1)
         /\ scan' = scan + 1
         /\ UNCHANGED <<gen, exc>>

\* (faulty variant of GenScan) the scan after a read stops after one line
GenScanOneLine ==
    /\ gen = "scan"
    /\ LET maybe_idx == Find(buffer, "\n") IN
       IF scan = 1 \/ maybe_idx = -1
       THEN /\ gen' = "read"
            /\ UNCHANGED <<buffer, scan, emitted, exc>>
       ELSE HandleLine(maybe_idx, LineEvent(api, TakeFirst(buffer, maybe_idx)))
    /\ UNCHANGED <<api, request, body, pos>>

\* one iteration of `for _ in range(100)`
GenScan ==
    /\ gen = "scan"
    /\ LET maybe_idx == Find(buffer, "\n") IN
       IF scan = SCAN_CAP \/ maybe_idx = -1
       THEN /\ gen' = "read"
            /\ UNCHANGED <<buffer, scan, emitted, exc>>
       ELSE HandleLine(maybe_idx, LineEvent(api, TakeFirst(buffer, maybe_idx)))
    /\ UNCHANGED <<api, request, body, pos>>

---------------------------------------------------------------------------
(* SpecDecode: one decoder run over a response body made of complete       *)
(* lines, split into reads in every possible way.                          *)

OpenaiLines == {
    "data: {\"choices\": [{\"delta\": {\"content\": \"abc\"}}]}",
    "data: {\"choices\": [{\"delta\": {\"content\": \"b\"}}]}",
    "data: {\"choices\": [{\"delta\": {\"content\": \"\"}}]}",
    "data: [DONE]",
    "data: {\"choices\"" }

AnthropicLines == {
    "data: {\"delta\": {\"text\": \"abc\"}}",
    "data: {\"delta\": {\"text\": \"b\"}}",
    "data: {\"delta\": {\"text\": \"\"}}",
    "data: {\"type\": \"ping\"}",
    "data: {\"delta\"" }

LinesOf(a) == IF a = "anthropic" THEN AnthropicLines ELSE OpenaiLines

RECURSIVE JoinLines(_)
JoinLines(ls) == IF ls = <<>> THEN "" ELSE Head(ls) \o "\n" \o JoinLines(Tail(ls))

\* the bodies of n complete lines
Bodies(a, n) == { JoinLines(ls) : ls \in [1..n -> LinesOf(a)] }

\* longer bodies: a fragment, a line that cannot be decoded, a fragment;
\* fragments on both sides of the OpenAI sentinel; and events framed as the
\* providers frame them, with event lines, blank lines and deltas without text
ScenarioBodies(a) ==
    IF a = "anthropic"
    THEN { JoinLines(<<"data: {\"delta\": {\"text\": \"abc\"}}",
                       "data: {\"delta\"",
                       "data: {\"delta\": {\"text\": \"b\"}}">>),
           JoinLines(<<"event: content_block_delta",
                       "data: {\"delta\": {\"text\": \"abc\"}}",
                       "">>) }
    ELSE { JoinLines(<<"data: {\"choices\": [{\"delta\": {}}]}",
                       "",
                       "data: {\"choices\": [{\"delta\": {\"content\": \"abc\"}}]}",
                       "">>),
           JoinLines(<<"data: {\"choices\": [{\"delta\": {\"content\": \"abc\"}}]}",
                       "data: {\"choices\"",
                       "data: {\"choices\": [{\"delta\": {\"content\": \"b\"}}]}">>),
           JoinLines(<<"data: {\"choices\": [{\"delta\": {\"content\": \"abc\"}}]}",
                       "data: [DONE]",
                       "data: {\"choices\": [{\"delta\": {\"content\": \"b\"}}]}">>) }

\* the variables of the session, at rest
NoSession ==
    /\ history = <<>>
    /\ files = <<>>
    /\ clipboard = ""
    /\ prompt = ""
    /\ ret = <<>>
    /\ result = ""
    /\ response_counter = 0
    /\ log_disk = [exists |-> FALSE, text |-> ""]
    /\ args = [model |-> "", system_prompt |-> FALSE, log |-> FALSE, restore |-> FALSE]
    /\ pc = "none"
    /\ todo = <<>>
    /\ runs = [exchanges |-> 0]
    /\ httpcache = NoCache
    /\ sink = NoSink
    /\ log_file = "None"

DecInit ==
    /\ NoSession
    /\ api \in {"openai", "anthropic"}
    /\ request = NoRequest
    /\ \/ \E n \in 1..MaxLines : body \in Bodies(api, n)
       \/ body \in ScenarioBodies(api)
    /\ pos = 0
    /\ buffer = ""
    /\ scan = 0
    /\ gen = "read"
    /\ emitted = <<>>
    /\ exc = ""

\* the sizes a read can return: any number of bytes up to what is left
ReadSizes == 1..Min(READ_SIZE, IF pos = Len(body) THEN 1 ELSE Len(body) - pos)

DecStep ==
    \/ \E k \in ReadSizes : GenRead(k)
    \/ GenScan

DecNext == DecStep /\ UNCHANGED <<ctxVars, mainVars>>

SpecDecode == DecInit /\ [][DecNext]_vars
---------------------------------------------------------------------------
(* What a body says, read line by line without any buffering *)

IsPrefix(a, b) == Len(a) <= Len(b) /\ SubSeq(b, 1, Len(a)) = a

\* the complete ("\n"-terminated) lines of s, in order
RECURSIVE CompleteLines(_)
CompleteLines(s) ==
    LET i == Find(s, "\n") IN
    IF i = -1 THEN <<>>
    ELSE <<TakeFirst(s, i)>> \o CompleteLines(DropFirst(s, i + 1))

FragmentOf(a, line) ==
    LET ev == LineEvent(a, line) IN
    IF ev.kind = "yield" THEN <<ev.text>> ELSE <<>>

Undecodable(a, line) == LineEvent(a, line).kind = "raise"

\* the text deltas of the lines ls, in order, up to the first line that
\* cannot be decoded
RECURSIVE Deltas(_, _)
Deltas(a, ls) ==
    IF ls = <<>> THEN <<>>
    ELSE LET ev == LineEvent(a, Head(ls)) IN
         IF ev.kind = "raise" THEN <<>>
         ELSE (IF ev.kind = "yield" THEN <<ev.text>> ELSE <<>>) \o Deltas(a, Tail(ls))

\* the text deltas of all the lines of ls that can be decoded
RECURSIVE WellFormedDeltas(_, _)
WellFormedDeltas(a, ls) ==
    IF ls = <<>> THEN <<>>
    ELSE FragmentOf(a, Head(ls)) \o WellFormedDeltas(a, Tail(ls))

\* ls up to and including its first sentinel line
RECURSIVE UpToSentinel(_)
UpToSentinel(ls) ==
    IF ls = <<>> THEN <<>>
    ELSE IF Head(ls) = "data: [DONE]" THEN <<Head(ls)>>
    ELSE <<Head(ls)>> \o UpToSentinel(Tail(ls))

GenOver == gen \in {"done", "raised"}

\* C1: whatever the split of the body into reads of 1..100 bytes, the
\* fragments yielded so far are a prefix of the text deltas of the body's
\* "data: " lines in arrival order, and when the generator is over they are
\* exactly those deltas (up to the first line that cannot be decoded): the
\* fragment sequence does not depend on the chunk boundaries.
C1_ChunkBoundaryInvariance ==
    LET deltas == Deltas(api, CompleteLines(body)) IN
    /\ IsPrefix(emitted, deltas)
    /\ GenOver => emitted = deltas

\* C1 witness: a read ended inside a line after a fragment was yielded, and
\* the rest of that line is still to come.
C1_Witness ==
    /\ gen = "read"
    /\ buffer # ""
    /\ Len(emitted) >= 1
    /\ pos < Len(body)

\* C2 (as claimed): the OpenAI sentinel is not decoded, yields nothing,
\* raises nothing, and ends decoding: nothing is yielded for a data line
\* that arrives after it.
C2_SentinelEndsDecoding ==
    api = "openai" =>
        /\ OpenaiEvent("[DONE]") = NoFragment
        /\ IsPrefix(emitted, Deltas(api, UpToSentinel(CompleteLines(body))))

\* C3 (as claimed): no yielded fragment is the empty string.
C3_NoEmptyFragment == \A i \in 1..Len(emitted) : emitted[i] # ""

\* C6 (as claimed): a data line that cannot be decoded does not abort the
\* stream: when the generator is over, the fragments of all the well-formed
\* data lines, those after the bad line included, have been yielded in order.
C6_DecodeFailureKeepsStream ==
    GenOver => emitted = WellFormedDeltas(api, CompleteLines(body))

\* the complete lines of the body already extracted from the buffer
Extracted == CompleteLines(TakeFirst(body, pos - Len(buffer)))

\* C6 (amended): a data line that cannot be decoded aborts the stream at that
\* line: the generator raises there, the fragments of the lines before it
\* have all been yielded in order, no later line is ever extracted (the
\* generator takes no further step), and a generator that ends normally has
\* met no such line.
C6_DecodeFailureAbortsStream ==
    LET ls == CompleteLines(body)
        bad == { i \in 1..Len(ls) : Undecodable(api, ls[i]) }
    IN  /\ (gen = "raised") = (exc # "")
        /\ gen = "raised" =>
               /\ bad # {}
               /\ \A i \in bad : i > Len(Extracted)
               /\ Undecodable(api, ls[Len(Extracted) + 1])
               /\ emitted = WellFormedDeltas(api, Extracted)
               /\ ~ENABLED DecNext
        /\ gen = "done" => bad = {}

\* C6 witness: the generator raised after yielding a fragment, with a
\* well-formed data line still behind the bad one.
C6_Witness ==
    /\ gen = "raised"
    /\ Len(emitted) >= 1
    /\ Len(WellFormedDeltas(api, CompleteLines(body))) > Len(emitted)
---------------------------------------------------------------------------
(* ChatContext and process_prompt *)

ROLE_USER == "user"
ROLE_ASSISTANT == "assistant"
ROLE_SYSTEM == "system"

\* ChatContext.add_history
add_history(h, role, content, item_id) ==
    Append(h, [role |-> role, content |-> content, item_id |-> item_id])

\* the files open() finds, with their contents; any other name raises
\* FileNotFoundError
Disk == ("notes.txt" :> "hello") @@ ("1" :> "one")

\* (faulty variant of add_file) a file already attached is not attached again
add_file_once(fs, filename) ==
    IF filename \in DOMAIN Disk
    THEN [ok |-> TRUE,
          files |-> IF \E i \in 1..Len(fs) : fs[i].filename = filename
                    THEN fs
                    ELSE Append(fs, [filename |-> filename, content |-> Disk[filename]])]
    ELSE [ok |-> FALSE, files |-> fs]

\* ChatContext.add_file: [ok, files]
add_file(fs, filename) ==
    IF filename \in DOMAIN Disk
    THEN [ok |-> TRUE,
          files |-> Append(fs, [filename |-> filename, content |-> Disk[filename]])]
    ELSE [ok |-> FALSE, files |-> fs]

\* str(n) for n >= 0
RECURSIVE Str(_)
Str(n) ==
    IF n < 10 THEN CharAt("0123456789", n + 1)
    ELSE Str(n \div 10) \o CharAt("0123456789", (n % 10) + 1)

\* prompt.split(" ", maxsplit=1)
Split1(s) ==
    LET i == Find(s, " ") IN
    IF i = -1 THEN <<s>> ELSE <<TakeFirst(s, i), DropFirst(s, i + 1)>>

\* str.splitlines, for texts whose only line break is "\n"
RECURSIVE SplitLines(_)
SplitLines(s) ==
    IF s = "" THEN <<>>
    ELSE LET i == Find(s, "\n") IN
         IF i = -1 THEN <<s>>
         ELSE <<TakeFirst(s, i)>> \o SplitLines(DropFirst(s, i + 1))

\* "\n".join(ls)
RECURSIVE JoinNewline(_)
JoinNewline(ls) ==
    IF ls = <<>> THEN ""
    ELSE IF Len(ls) = 1 THEN Head(ls)
    ELSE Head(ls) \o "\n" \o JoinNewline(Tail(ls))

\* The code fence.  A TLA+ string cannot hold the backquote character, so
\* the texts of the model write "~" for it: this is "```" in the source.
Fence == "~~~"

\* (faulty variant of CodeLines) the line that closes a fence is taken as code
RECURSIVE CodeLinesWithClosingFence(_, _)
CodeLinesWithClosingFence(ls, state) ==
    IF ls = <<>> THEN <<>>
    ELSE IF state = "start"
         THEN CodeLinesWithClosingFence(Tail(ls),
                  IF StartsWith(Head(ls), Fence) THEN "code" ELSE "start")
         ELSE <<Head(ls)>> \o CodeLinesWithClosingFence(Tail(ls),
                  IF StartsWith(Head(ls), Fence) THEN "start" ELSE "code")

\* the fence scanner of /copy c: lines between an opening and a closing fence
RECURSIVE CodeLines(_, _)
CodeLines(ls, state) ==
    IF ls = <<>> THEN <<>>
    ELSE IF state = "start"
         THEN CodeLines(Tail(ls), IF StartsWith(Head(ls), Fence) THEN "code" ELSE "start")
         ELSE IF StartsWith(Head(ls), Fence)
              THEN CodeLines(Tail(ls), "start")
              ELSE <<Head(ls)>> \o CodeLines(Tail(ls), "code")

\* the local state of the /copy branch: content and item_id (None: some = FALSE)
NothingFound == [content |-> "", some |-> FALSE, item_id |-> ""]

\* _find(lambda _: True): the most recent assistant turn, if any
FindLatest(h, cur) ==
    LET hits == { i \in 1..Len(h) : h[i].role = ROLE_ASSISTANT } IN
    IF hits = {} THEN cur
    ELSE LET i == CHOOSE i \in hits : \A j \in hits : j <= i IN
         [content |-> h[i].content, some |-> TRUE, item_id |-> h[i].item_id]

\* (faulty variant of FindId) the id is not looked at
FindIdAnyReply(h, wanted, cur) == FindLatest(h, cur)

\* _find(lambda item: item == wanted): the most recent assistant turn with that id
FindId(h, wanted, cur) ==
    LET hits == { i \in 1..Len(h) : h[i].role = ROLE_ASSISTANT /\ h[i].item_id = wanted } IN
    IF hits = {} THEN cur
    ELSE LET i == CHOOSE i \in hits : \A j \in hits : j <= i IN
         [content |-> h[i].content, some |-> TRUE, item_id |-> h[i].item_id]

\* what process_prompt returns and does: the context after it, the returned
\* pair, and the call of set_clipboard it made, if any
Outcome(h, fs, forward, info) ==
    [history |-> h, files |-> fs, ret |-> <<forward, info>>,
     clip |-> [called |-> FALSE, content |-> ""]]

\* /add, /a
AddCommand(context, rest) ==
    LET r == add_file(context.files, rest) IN
    IF r.ok
    THEN Outcome(context.history, r.files, "", "Added file " \o rest)
    ELSE Outcome(context.history, r.files, "", "Failed to add file " \o rest)

\* (faulty variant of RemoveCommand) a selector that matches nothing removes
\* the last entry
RemoveCommandOrLast(context, rest) ==
    LET fs == context.files
        hit == { i \in 1..Len(fs) : Str(i - 1) = rest \/ fs[i].filename = rest }
    IN  IF hit = {}
        THEN Outcome(context.history, SubSeq(fs, 1, Len(fs) - 1), "", "Removed file")
        ELSE Outcome(context.history, SelectSeq(fs, LAMBDA f : f.filename # rest), "",
                     "Removed file")

\* /remove, /r
RemoveCommand(context, rest) ==
    LET fs == context.files
        kept == { i \in 1..Len(fs) : Str(i - 1) # rest /\ fs[i].filename # rest }
        found == kept # 1..Len(fs)
        RECURSIVE Keep(_)
        Keep(i) == IF i > Len(fs) THEN <<>>
                   ELSE (IF i \in kept THEN <<fs[i]>> ELSE <<>>) \o Keep(i + 1)
    IN  Outcome(context.history, Keep(1), "",
                IF found THEN "Removed file" ELSE "Didn't find file")

\* /copy, /c; copied is what set_clipboard returns when it is called
CopyCommand(context, rest, copied) ==
    LET h == context.history
        first == IF rest = "" THEN FindLatest(h, NothingFound)
                 ELSE IF StartsWith(rest, "r") THEN FindId(h, rest, NothingFound)
                 ELSE NothingFound
        code == StartsWith(rest, "c")
        second == IF ~code THEN first
                  ELSE IF Len(rest) > 1
                       THEN LET item_id == "r" \o DropFirst(rest, 1) IN
                            FindId(h, item_id,
                                   [content |-> first.content, some |-> TRUE, item_id |-> item_id])
                       ELSE FindLatest(h, first)
        content == IF code
                   THEN JoinNewline(CodeLines(SplitLines(second.content), "start"))
                   ELSE second.content
        extra == IF code THEN " code" ELSE ""
    IN  IF second.some /\ second.item_id # ""
        THEN [history |-> h, files |-> context.files,
              ret |-> <<"", (IF copied THEN "Copied " ELSE "Failed to copy ")
                            \o second.item_id \o extra \o " to clipboard">>,
              clip |-> [called |-> TRUE, content |-> content]]
        ELSE Outcome(h, context.files, "", "Could not find item to copy")

\* (faulty variant of PopHistoryCommand) only the last turn is dropped
PopHistoryDropsOne(context) ==
    Outcome(SubSeq(context.history, 1, Len(context.history) - 1), context.files,
            "", "Dropped last request/response from history")

\* (faulty variant of PopHistoryCommand) the branch returns no message
PopHistoryNoMessage(context) ==
    Outcome(SubSeq(context.history, 1, Len(context.history) - 2), context.files, "", "")

\* /pop-history, /ph
PopHistoryCommand(context) ==
    Outcome(SubSeq(context.history, 1, Len(context.history) - 2), context.files,
            "", "Dropped last request/response from history")

\* /print-history, /prh
PrintHistoryCommand(context) ==
    IF context.history = <<>>
    THEN Outcome(context.history, context.files, "", "No chat history to display")
    ELSE Outcome(context.history, context.files, "", "Chat history printed above")

help_text ==
    "Available commands:\n"
    \o "/add <file>, /a <file>        - Add file to chat context\n"
    \o "/remove <file>, /r <file>     - Remove file by name or index\n"
    \o "/remove-all, /ra              - Remove all files from context\n"
    \o "/copy [item], /c [item]       - Copy response to clipboard (latest if no item)\n"
    \o "/copy c[num], /c c[num]       - Copy code blocks from response\n"
    \o "/pop-history, /ph             - Remove last request/response from history\n"
    \o "/print-history, /prh          - Print all chat history to terminal\n"
    \o "/help, /h                     - Show this help message"

\* (faulty variant of process_prompt) a line with an unknown command is
\* returned as text to forward
process_prompt_forwards_unknown(context, p, copied) ==
    LET bits == Split1(p)
        is_command == StartsWith(bits[1], "/")
        command == IF is_command THEN bits[1] ELSE ""
        rest == IF is_command THEN (IF Len(bits) = 2 THEN bits[2] ELSE "") ELSE p
    IN  CASE command \in {"/add", "/a"} -> AddCommand(context, rest)
          [] command \in {"/remove", "/r"} -> RemoveCommand(context, rest)
          [] command \in {"/remove-all", "/ra"} ->
                 Outcome(context.history, <<>>, "", "Removed all files")
          [] command \in {"/copy", "/c"} -> CopyCommand(context, rest, copied)
          [] command \in {"/pop-history", "/ph"} -> PopHistoryCommand(context)
          [] command \in {"/print-history", "/prh"} -> PrintHistoryCommand(context)
          [] command \in {"/help", "/h"} -> Outcome(context.history, context.files, "", help_text)
          [] OTHER -> Outcome(context.history, context.files, p, "")

\* process_prompt(context, prompt), context = [history, files]
process_prompt(context, p, copied) ==
    LET bits == Split1(p)
        is_command == StartsWith(bits[1], "/")
        command == IF is_command THEN bits[1] ELSE ""
        rest == IF is_command THEN (IF Len(bits) = 2 THEN bits[2] ELSE "") ELSE p
    IN  CASE command \in {"/add", "/a"} -> AddCommand(context, rest)
          [] command \in {"/remove", "/r"} -> RemoveCommand(context, rest)
          [] command \in {"/remove-all", "/ra"} ->
                 Outcome(context.history, <<>>, "", "Removed all files")
          [] command \in {"/copy", "/c"} -> CopyCommand(context, rest, copied)
          [] command \in {"/pop-history", "/ph"} -> PopHistoryCommand(context)
          [] command \in {"/print-history", "/prh"} -> PrintHistoryCommand(context)
          [] command \in {"/help", "/h"} -> Outcome(context.history, context.files, "", help_text)
          [] command = "" -> Outcome(context.history, context.files, p, "")
          [] OTHER -> Outcome(context.history, context.files, "",
                              "Unknown command: " \o command \o " . Try /help.")

\* the call `prompt_modified, info_message = process_prompt(context, prompt)`
CallProcessPrompt(p, copied) ==
    LET r == process_prompt([history |-> history, files |-> files], p, copied) IN
    /\ prompt' = p
    /\ history' = r.history
    /\ files' = r.files
    /\ ret' = r.ret
    /\ clipboard' = IF r.clip.called /\ copied THEN r.clip.content ELSE clipboard

---------------------------------------------------------------------------
(* SpecPrompt: process_prompt applied to input lines, the empty line       *)
(* included, on contexts with and without turns and files.                 *)

\* Files attached to a context, at most.
MaxFiles == 2

PromptInputs == {
    "", "hi", "tell me more", " /h",
    "/a notes.txt", "/add nope.txt", "/a",
    "/r 0", "/r 1", "/remove notes.txt", "/r 7",
    "/ra",
    "/c", "/copy r0", "/c r9", "/c c", "/c c0", "/c c9", "/c x",
    "/ph", "/prh", "/h", "/help me",
    "/", "/nope", "/nope arg" }

PromptHistories == {
    <<>>,
    <<[role |-> ROLE_SYSTEM, content |-> "be brief", item_id |-> "unset"]>>,
    <<[role |-> ROLE_USER, content |-> "hi", item_id |-> "unset"],
      [role |-> ROLE_ASSISTANT, content |-> "abc\n~~~\nx = 1\n~~~\n", item_id |-> "r0"]>>,
    <<[role |-> ROLE_SYSTEM, content |-> "be brief", item_id |-> "unset"],
      [role |-> ROLE_USER, content |-> "hi", item_id |-> "unset"],
      [role |-> ROLE_ASSISTANT, content |-> "abc", item_id |-> "r0"],
      [role |-> ROLE_USER, content |-> "tell me more", item_id |-> "unset"],
      [role |-> ROLE_ASSISTANT, content |-> "b", item_id |-> "r1"]>> }

RECURSIVE AttachAll(_)
AttachAll(names) ==
    IF names = <<>> THEN <<>>
    ELSE Append(AttachAll(SubSeq(names, 1, Len(names) - 1)),
                [filename |-> names[Len(names)], content |-> Disk[names[Len(names)]]])

PromptInit ==
    /\ api = "openai" /\ request = NoRequest
    /\ body = "" /\ pos = 0 /\ buffer = "" /\ scan = 0
    /\ gen = "idle" /\ emitted = <<>> /\ exc = ""
    /\ history \in PromptHistories
    /\ \E n \in 0..MaxFiles : \E names \in [1..n -> DOMAIN Disk] : files = AttachAll(names)
    /\ clipboard = ""
    /\ prompt = ""
    /\ ret = <<>>
    /\ result = ""
    /\ response_counter = 0
    /\ log_disk = [exists |-> FALSE, text |-> ""]
    /\ args = [model |-> "", system_prompt |-> FALSE, log |-> FALSE, restore |-> FALSE]
    /\ pc = "none"
    /\ todo = <<>>
    /\ runs = [exchanges |-> 0]
    /\ httpcache = NoCache
    /\ sink = NoSink
    /\ log_file = "None"

PromptNext ==
    \E p \in PromptInputs, copied \in BOOLEAN :
        /\ CallProcessPrompt(p, copied)
        /\ Len(files') <= MaxFiles
        /\ UNCHANGED <<decVars, mainVars>>

SpecPrompt == PromptInit /\ [][PromptNext]_vars

\* C10 (as claimed): for every input line and every context, exactly one of
\* the two components of the returned pair is non-empty.
C10_ExactlyOneNonEmpty ==
    ret # <<>> => ((ret[1] # "") # (ret[2] # ""))

\* C10 (amended): for every non-empty input line and every context, exactly
\* one of the two components of the returned pair is non-empty; for the
\* empty line both are empty.
C10_ExactlyOneUnlessEmptyLine ==
    ret # <<>> =>
        IF prompt = "" THEN ret = <<"", "">>
        ELSE (ret[1] # "") # (ret[2] # "")

\* C10 witness: a command has returned its message and left the forward
\* text empty, on a context with turns.
C10_Witness ==
    /\ ret # <<>>
    /\ prompt = "/ph"
    /\ ret[1] = "" /\ ret[2] # ""
\* the line is a /copy command
IsCopy(p) == Split1(p)[1] \in {"/copy", "/c"}

\* the argument of a command line
ArgOf(p) == IF Len(Split1(p)) = 2 THEN Split1(p)[2] ELSE ""

AssistantTurns(h) == { i \in 1..Len(h) : h[i].role = ROLE_ASSISTANT }

\* lines 282-287: the two messages returned after set_clipboard was called
ClipboardCalled(r) ==
    StartsWith(r[2], "Copied ") \/ StartsWith(r[2], "Failed to copy ")

\* C12 (as claimed): /copy on a history without assistant turn, whatever its
\* argument, does not call set_clipboard and returns an info message.
C12_CopyWithoutReplyLeavesClipboard ==
    (ret # <<>> /\ IsCopy(prompt) /\ AssistantTurns(history) = {}) =>
        /\ ~ClipboardCalled(ret)
        /\ ret[1] = "" /\ ret[2] # ""
\* the assistant turns of h whose item_id is id
TurnsWithId(h, id) == { i \in AssistantTurns(h) : h[i].item_id = id }

Latest(S) == CHOOSE i \in S : \A j \in S : j <= i

\* C13: "/copy r<k>", when history holds an assistant turn whose item_id is
\* r<k>, calls set_clipboard with the full content of that turn (the latest
\* one with that id), most recent reply or not; "/copy" without argument,
\* when history holds an assistant turn, calls it with the content of the
\* most recent assistant turn.  (The content is seen on the clipboard when
\* set_clipboard succeeds.)
C13_CopyAddressing ==
    (ret # <<>> /\ IsCopy(prompt)) =>
        /\ (StartsWith(ArgOf(prompt), "r") /\ TurnsWithId(history, ArgOf(prompt)) # {}) =>
               /\ ClipboardCalled(ret)
               /\ StartsWith(ret[2], "Copied ") =>
                      clipboard = history[Latest(TurnsWithId(history, ArgOf(prompt)))].content
        /\ (ArgOf(prompt) = "" /\ AssistantTurns(history) # {}) =>
               /\ ClipboardCalled(ret)
               /\ StartsWith(ret[2], "Copied ") =>
                      clipboard = history[Latest(AssistantTurns(history))].content

\* C13 witness: "/copy r0" has put the first reply on the clipboard while a
\* later reply r1 exists.
C13_Witness ==
    /\ prompt = "/copy r0"
    /\ ret = <<"", "Copied r0 to clipboard">>
    /\ TurnsWithId(history, "r1") # {}
    /\ Latest(TurnsWithId(history, "r0")) < Latest(AssistantTurns(history))
    /\ clipboard = "abc"
\* the line is a /remove command
IsRemove(p) == Split1(p)[1] \in {"/remove", "/r"}

\* the entries of fs the selector designates: by zero-based index, by filename
Matches(fs, selector) ==
    { i \in 1..Len(fs) : Str(i - 1) = selector \/ fs[i].filename = selector }

\* fs without its entry i
WithoutEntry(fs, i) == SubSeq(fs, 1, i - 1) \o SubSeq(fs, i + 1, Len(fs))

First(S) == CHOOSE i \in S : \A j \in S : i <= j

\* C14 (as claimed): a /remove whose selector designates at least one
\* attached file removes exactly one entry, the first one designated: the
\* list is the former list without that entry.
C14_RemoveFirstMatchOnly ==
    [][ (IsRemove(prompt') /\ Matches(files, ArgOf(prompt')) # {}) =>
            files' = WithoutEntry(files, First(Matches(files, ArgOf(prompt')))) ]_vars
\* s is a decimal numeral
IsNumeral(s) == s # "" /\ \A i \in 1..Len(s) : CharAt(s, i) \in Digits

\* int(s) for a numeral s
RECURSIVE NumVal(_)
NumVal(s) ==
    IF s = "" THEN 0
    ELSE 10 * NumVal(TakeFirst(s, Len(s) - 1))
         + (CHOOSE d \in 0..9 : CharAt("0123456789", d + 1) = CharAt(s, Len(s)))

\* the selector is a numeric index at or beyond the end of fs
OutOfRange(fs, selector) == IsNumeral(selector) /\ NumVal(selector) >= Len(fs)

NotFound == <<"", "Didn't find file">>

\* C15 (as claimed): "/remove <n>" with n a numeric index at or beyond the
\* number of attached files returns the not-found message and leaves the
\* list unchanged, for every list of attached files.
C15_OutOfRangeIndexNotFound ==
    [][ (IsRemove(prompt') /\ OutOfRange(files, ArgOf(prompt'))) =>
            (files' = files /\ ret' = NotFound) ]_vars

\* C15 (amended): "/remove <n>" with n a numeric index at or beyond the
\* number of attached files returns the not-found message and leaves the
\* list unchanged, for every list in which no attached file is named <n>.
C15_OutOfRangeIndexNotFoundUnlessNamed ==
    [][ (/\ IsRemove(prompt')
         /\ OutOfRange(files, ArgOf(prompt'))
         /\ \A i \in 1..Len(files) : files[i].filename # ArgOf(prompt')) =>
            (files' = files /\ ret' = NotFound) ]_vars

\* C15 witness: "/r 1" on a list of one file, not named "1", was not found
C15_Witness ==
    /\ prompt = "/r 1"
    /\ Len(files) = 1 /\ files[1].filename = "notes.txt"
    /\ ret = NotFound
\* the line is an /add command
IsAdd(p) == Split1(p)[1] \in {"/add", "/a"}

\* C16: /add of a path that does not exist reports "Failed to add file" and
\* leaves the list of files unchanged; /add of a file that exists appends
\* exactly one entry, with that name and the file's content, at the end of
\* the list, whether or not the name is attached already, and changes no
\* existing entry.
C16_AddFile ==
    [][ IsAdd(prompt') =>
            IF ArgOf(prompt') \in DOMAIN Disk
            THEN /\ files' = files \o <<[filename |-> ArgOf(prompt'),
                                         content |-> Disk[ArgOf(prompt')]]>>
                 /\ ret' = <<"", "Added file " \o ArgOf(prompt')>>
            ELSE /\ files' = files
                 /\ ret' = <<"", "Failed to add file " \o ArgOf(prompt')>> ]_vars

\* C16 witness: a file that was attached already has been attached again
C16_Witness ==
    /\ prompt = "/a notes.txt"
    /\ ret = <<"", "Added file notes.txt">>
    /\ Len(files) = 2
    /\ files[1].filename = "notes.txt" /\ files[2].filename = "notes.txt"
---------------------------------------------------------------------------
(* openai.py: its process_prompt, applied to the same input lines          *)

\* a function that falls off its end returns None
ReturnsNone == <<"None">>

\* openai.py, process_prompt(context, prompt): a first token is a command
\* only when the line has a space
openai_process_prompt(context, p) ==
    LET bits == Split1(p)
        is_command == Len(bits) = 2 /\ StartsWith(bits[1], "/")
        command == IF is_command THEN bits[1] ELSE ""
        rest == IF is_command THEN bits[2] ELSE p
    IN  CASE command = "/add" -> AddCommand(context, rest)
          [] command = "/remove" -> RemoveCommand(context, rest)
          [] command = "/remove-all" ->
                 Outcome(context.history, <<>>, "", "Removed all files")
          [] command = "" -> Outcome(context.history, context.files, p, "")
          [] OTHER -> [Outcome(context.history, context.files, "", "")
                          EXCEPT !.ret = ReturnsNone]

OpenaiPromptInputs == {
    "hi", "tell me more",
    "/add notes.txt", "/add nope.txt", "/add",
    "/remove 0", "/remove notes.txt", "/remove",
    "/remove-all", "/remove-all now",
    "/nope", "/nope arg", "/" }

\* openai.py, main: prompt_modified, info_message = process_prompt(context, prompt)
OpenaiPromptNext ==
    \E p \in OpenaiPromptInputs :
        LET r == openai_process_prompt([history |-> history, files |-> files], p) IN
        /\ prompt' = p
        /\ history' = r.history
        /\ files' = r.files
        /\ ret' = r.ret
        /\ pc' = "called"
        /\ Len(files') <= MaxFiles
        /\ UNCHANGED <<decVars, clipboard, result, response_counter, log_disk, args, todo, httpcache, sink, log_file, runs>>

SpecOpenaiPrompt == PromptInit /\ [][OpenaiPromptNext]_vars

\* the first space-delimited token of the line starts with "/"
SlashLine(p) == StartsWith(Split1(p)[1], "/")

\* C11 (as claimed, for openai.py): a line whose first token starts with "/"
\* is never forwarded: process_prompt returns an empty forward text and a
\* non-empty message for it.
C11_SlashLineNeverForwarded ==
    (pc = "called" /\ SlashLine(prompt)) =>
        /\ ret # ReturnsNone
        /\ ret[1] = ""
        /\ ret[2] # ""
---------------------------------------------------------------------------
(* The session log: log_message and restore_chat_history *)

\* None, for an optional argument or a missing key
None == JVal("none", "", <<>>)
PyStr(x) == JVal("str", x, <<>>)

\* the escapes json.dumps writes inside a string (ASCII texts)
RECURSIVE EscapeString(_)
EscapeString(x) ==
    IF x = "" THEN ""
    ELSE LET c == CharAt(x, 1)
             e == CASE c = "\"" -> "\\\""
                    [] c = "\\" -> "\\\\"
                    [] c = "\n" -> "\\n"
                    [] c = "\t" -> "\\t"
                    [] c = "\r" -> "\\r"
                    [] OTHER -> c
         IN  e \o EscapeString(DropFirst(x, 1))

\* json.dumps(v), default separators ", " and ": "
RECURSIVE JsonDumps(_)
RECURSIVE DumpItems(_, _)
DumpItems(items, object) ==
    IF items = <<>> THEN ""
    ELSE LET one == IF object
                    THEN "\"" \o EscapeString(Head(items).k) \o "\": " \o JsonDumps(Head(items).v)
                    ELSE JsonDumps(Head(items))
         IN  IF Len(items) = 1 THEN one
             ELSE one \o ", " \o DumpItems(Tail(items), object)

JsonDumps(v) ==
    CASE v.t = "str" -> "\"" \o EscapeString(v.s) \o "\""
      [] v.t = "obj" -> "{" \o DumpItems(v.items, TRUE) \o "}"
      [] v.t = "arr" -> "[" \o DumpItems(v.items, FALSE) \o "]"
      [] v.t \in {"null", "none"} -> "null"
      [] OTHER -> v.s

\* datetime.datetime.now().isoformat(): some time stamp
timestamp == "2026-11-06T09:30:00.250000"

\* the optional members of a log entry
Optional(key, v) == IF v = None THEN <<>> ELSE <<[k |-> key, v |-> v]>>

\* log_message: the text appended to the log file
log_message(actor, message, model, response_time, item_id) ==
    LET log_entry == JVal("obj", "",
                          <<[k |-> "timestamp", v |-> PyStr(timestamp)],
                            [k |-> "role", v |-> PyStr(actor)],
                            [k |-> "message", v |-> PyStr(message)]>>
                          \o Optional("model", model)
                          \o Optional("response_time", response_time)
                          \o Optional("item_id", item_id))
    IN  JsonDumps(log_entry) \o "\n"

\* `for line in f`: the lines of a text file, the unterminated last one included
RECURSIVE FileLines(_)
FileLines(text) ==
    IF text = "" THEN <<>>
    ELSE LET i == Find(text, "\n") IN
         IF i = -1 THEN <<text>>
         ELSE <<TakeFirst(text, i + 1)>> \o FileLines(DropFirst(text, i + 1))

\* str.strip()
RECURSIVE Strip(_)
Strip(x) ==
    IF x = "" THEN ""
    ELSE IF CharAt(x, 1) \in Whitespace THEN Strip(DropFirst(x, 1))
    ELSE IF CharAt(x, Len(x)) \in Whitespace THEN Strip(TakeFirst(x, Len(x) - 1))
    ELSE x

\* entry.get(key, default)
GetOr(d, key, default) == IF HasKey(d, key) THEN GetKey(d, key) ELSE default

\* a decoded JSON value as the Python value stored in a turn
PyValue(v) == IF v.t = "str" THEN v.s ELSE v

\* the loop of restore_chat_history over the lines still to read
RECURSIVE RestoreLines(_, _)
RestoreLines(h, ls) ==
    IF ls = <<>> THEN h
    ELSE LET line == Strip(Head(ls)) IN
         IF line = "" THEN RestoreLines(h, Tail(ls))
         ELSE LET entry == JsonLoads(line) IN
              \* except json.JSONDecodeError: continue
              IF ~entry.ok THEN RestoreLines(h, Tail(ls))
              \* entry.get raises AttributeError: except Exception ends the replay
              ELSE IF entry.v.t # "obj" THEN h
              ELSE LET role == GetOr(entry.v, "role", None)
                       message == GetOr(entry.v, "message", None)
                       item_id == GetOr(entry.v, "item_id", PyStr("unset"))
                   IN  IF role \in {PyStr(ROLE_USER), PyStr(ROLE_ASSISTANT)} /\ Truthy(message)
                       THEN RestoreLines(
                                add_history(h, role.s, PyValue(message), PyValue(item_id)),
                                Tail(ls))
                       ELSE RestoreLines(h, Tail(ls))

\* (faulty variant of restore_chat_history) entries of every role are restored
RECURSIVE RestoreLinesAnyRole(_, _)
RestoreLinesAnyRole(h, ls) ==
    IF ls = <<>> THEN h
    ELSE LET line == Strip(Head(ls)) IN
         IF line = "" THEN RestoreLinesAnyRole(h, Tail(ls))
         ELSE LET entry == JsonLoads(line) IN
              IF ~entry.ok THEN RestoreLinesAnyRole(h, Tail(ls))
              ELSE IF entry.v.t # "obj" THEN h
              ELSE LET role == GetOr(entry.v, "role", None)
                       message == GetOr(entry.v, "message", None)
                       item_id == GetOr(entry.v, "item_id", PyStr("unset"))
                   IN  IF role.t = "str" /\ Truthy(message)
                       THEN RestoreLinesAnyRole(
                                add_history(h, role.s, PyValue(message), PyValue(item_id)),
                                Tail(ls))
                       ELSE RestoreLinesAnyRole(h, Tail(ls))

restore_chat_history_any_role(h, file) ==
    IF ~file.exists THEN h
    ELSE RestoreLinesAnyRole(h, FileLines(file.text))

\* restore_chat_history(context, log_filename): the history afterwards
restore_chat_history(h, file) ==
    IF ~file.exists THEN h      \* FileNotFoundError: a warning
    ELSE RestoreLines(h, FileLines(file.text))
---------------------------------------------------------------------------
(* SpecLog: a log file is written line by line, by log_message and by      *)
(* other hands, and restore_chat_history replays it into a fresh context.  *)

\* Lines written to the log file before it is restored, at most.
MaxEntries == 3

SystemTurn == [role |-> ROLE_SYSTEM, content |-> "be brief", item_id |-> "unset"]

\* the history main builds before it restores (lines 441-445)
StartHistory(a) == IF a.system_prompt THEN <<SystemTurn>> ELSE <<>>

\* what is written: turns (through log_message, as main calls it) and raw
\* lines that are no log entries of this program
LogItems ==
    { [kind |-> "turn", role |-> ROLE_USER, content |-> c, item_id |-> ""] :
          c \in {"hi", "a\nb \"q\" \\"} }
    \cup { [kind |-> "turn", role |-> ROLE_ASSISTANT, content |-> "abc", item_id |-> "r0"],
           [kind |-> "turn", role |-> ROLE_ASSISTANT, content |-> " x\ty ", item_id |-> "r1"],
           [kind |-> "turn", role |-> ROLE_ASSISTANT, content |-> "", item_id |-> "r1"] }
    \cup { [kind |-> "raw", role |-> "", content |-> c, item_id |-> ""] :
          c \in {"not json", "5", "", "{\"role\": \"system\", \"message\": \"be brief\"}"} }

\* the line an item puts in the file
LineOf(it) ==
    IF it.kind = "raw" THEN it.content \o "\n"
    ELSE IF it.role = ROLE_USER
         THEN log_message(ROLE_USER, it.content, None, None, None)
         ELSE log_message(ROLE_ASSISTANT, it.content, PyStr("gpt-4.1-nano"),
                          JVal("num", "0.5", <<>>), PyStr(it.item_id))

LogInit ==
    /\ api = "openai" /\ request = NoRequest
    /\ body = "" /\ pos = 0 /\ buffer = "" /\ scan = 0
    /\ gen = "idle" /\ emitted = <<>> /\ exc = ""
    /\ files = <<>> /\ clipboard = "" /\ prompt = "" /\ ret = <<>>
    /\ result = "" /\ response_counter = 0
    /\ log_disk = [exists |-> FALSE, text |-> ""]
    /\ \E sp \in BOOLEAN :
           args = [model |-> "gpt-4.1-nano", system_prompt |-> sp, log |-> TRUE, restore |-> TRUE]
    /\ history = StartHistory(args)
    /\ pc = "write"
    /\ \E n \in 0..MaxEntries : \E items \in [1..n -> LogItems] :
           todo = [items |-> items, done |-> 0]
    /\ runs = [exchanges |-> 0]
    /\ httpcache = NoCache
    /\ sink = NoSink
    /\ log_file = "None"

\* the next item is appended to the file (log_file.write, log_file.flush)
LogWrite ==
    /\ pc = "write"
    /\ todo.done < Len(todo.items)
    /\ log_disk' = [exists |-> TRUE,
                    text |-> log_disk.text \o LineOf(todo.items[todo.done + 1])]
    /\ todo' = [todo EXCEPT !.done = @ + 1]
    /\ UNCHANGED <<decVars, ctxVars, result, response_counter, args, pc, runs, httpcache, sink, log_file>>

\* restore_chat_history(context, args.restore)
LogRestore ==
    /\ pc = "write"
    /\ history' = restore_chat_history(history, log_disk)
    /\ pc' = "restored"
    /\ UNCHANGED <<decVars, files, clipboard, prompt, ret,
                   result, response_counter, log_disk, args, todo, httpcache, sink, log_file, runs>>

LogNext == LogWrite \/ LogRestore

SpecLog == LogInit /\ [][LogNext]_vars

\* the items written so far, and the turn an item stands for
Written == SubSeq(todo.items, 1, todo.done)

TurnOf(it) ==
    [role |-> it.role, content |-> it.content,
     item_id |-> IF it.role = ROLE_USER THEN "unset" ELSE it.item_id]

IsTurn(it) == it.kind = "turn"

\* the turns among items, in order; with_empty: those of empty content too
RECURSIVE TurnsOf(_, _)
TurnsOf(items, with_empty) ==
    IF items = <<>> THEN <<>>
    ELSE (IF IsTurn(Head(items)) /\ (with_empty \/ Head(items).content # "")
          THEN <<TurnOf(Head(items))>>
          ELSE <<>>)
         \o TurnsOf(Tail(items), with_empty)

\* C7 (as claimed): when the file holds exactly the user and assistant turns
\* written with log_message, restoring it reconstructs the same turns in
\* order, with role, content and item_id ("unset" for user turns), whatever
\* the contents.
C7_LogRoundTrip ==
    (pc = "restored" /\ \A i \in 1..Len(Written) : IsTurn(Written[i]))
        => history = StartHistory(args) \o TurnsOf(Written, TRUE)

\* C8 (as claimed): restoring any file restores every well-formed user or
\* assistant entry, in file order, whatever other lines stand before or
\* after it; a missing file leaves the context as it was.
C8_RestoreBestEffort ==
    pc = "restored" =>
        /\ history = StartHistory(args) \o TurnsOf(Written, FALSE)
        /\ ~log_disk.exists => history = StartHistory(args)
---------------------------------------------------------------------------
(* The outbound request: build_messages and the `data` of the two clients  *)

Models == {"gpt-4.1-nano", "claude-haiku"}

\* lines 433-440: the client class for args.model
ClientOf(model) == IF StartsWith(model, "claude-") THEN "anthropic" ELSE "openai"

\* f"<FILENAME>{file['filename']}</FILENAME><FILECONTENT>{file['content']}</FILECONTENT>"
FileBlock(file) ==
    "<FILENAME>" \o file.filename \o "</FILENAME><FILECONTENT>"
    \o file.content \o "</FILECONTENT>"

RECURSIVE FileBlocks(_)
FileBlocks(fs) == IF fs = <<>> THEN <<>> ELSE <<FileBlock(Head(fs))>> \o FileBlocks(Tail(fs))

\* (faulty variant of WrapMessage) the text comes before the files
WrapMessageTextFirst(fs, user_message) ==
    IF Len(fs) > 0
    THEN "My question is this: " \o user_message
         \o "\n\nConsider the following files:\n\n" \o JoinNewline(FileBlocks(fs))
    ELSE user_message

\* the content of the new user message
WrapMessage(fs, user_message) ==
    IF Len(fs) > 0
    THEN "Consider the following files:\n\n" \o JoinNewline(FileBlocks(fs))
         \o "\n\nMy question is this: " \o user_message
    ELSE user_message

RECURSIVE RoleAndContent(_)
RoleAndContent(h) ==
    IF h = <<>> THEN <<>>
    ELSE <<[role |-> Head(h).role, content |-> Head(h).content]>> \o RoleAndContent(Tail(h))

\* (faulty variant of build_messages) the new user turn is put in the turn
\* list before the list is rendered
build_messages_after_append(context, user_message) ==
    RoleAndContent(add_history(context.history, ROLE_USER, user_message, "unset"))
    \o <<[role |-> ROLE_USER, content |-> WrapMessage(context.files, user_message)]>>

\* ChatContext.build_messages(user_message), context = [history, files]
build_messages(context, user_message) ==
    RoleAndContent(context.history)
    \o <<[role |-> ROLE_USER, content |-> WrapMessage(context.files, user_message)]>>

\* main, model_map: the model name the Anthropic client is built with
model_map(model) ==
    CASE model = "claude-haiku" -> "claude-3-haiku-20240307"
      [] model = "claude-sonnet" -> "claude-3-sonnet-20240229"

\* temperature or 1.0
TemperatureOr1(temperature) ==
    IF Truthy(temperature) THEN temperature ELSE JVal("num", "1.0", <<>>)

\* the last system message's content, "" when there is none
RECURSIVE SystemOf(_, _)
SystemOf(messages, system) ==
    IF messages = <<>> THEN system
    ELSE SystemOf(Tail(messages),
                  IF Head(messages).role = ROLE_SYSTEM THEN Head(messages).content ELSE system)

\* (faulty variant of AnthropicData) the system turn stays among the messages
AnthropicDataKeepsSystem(model, messages, temperature) ==
    [model |-> model,
     messages |-> messages,
     temperature |-> TemperatureOr1(temperature),
     system |-> SystemOf(messages, ""),
     stream |-> TRUE,
     max_tokens |-> 4096]

\* AnthropicAPI.user_query_streamed: data
AnthropicData(model, messages, temperature) ==
    [model |-> model,
     messages |-> SelectSeq(messages, LAMBDA message : message.role # ROLE_SYSTEM),
     temperature |-> TemperatureOr1(temperature),
     system |-> SystemOf(messages, ""),
     stream |-> TRUE,
     max_tokens |-> 4096]

\* OpenaiAPI.user_query_streamed: data
OpenaiData(model, messages, temperature) ==
    [model |-> model,
     messages |-> messages,
     temperature |-> TemperatureOr1(temperature),
     stream |-> TRUE]

\* the data of the request client.user_query_streamed(messages, temperature)
\* sends, client built in main for args.model
RequestData(model, messages, temperature) ==
    IF ClientOf(model) = "anthropic"
    THEN AnthropicData(model_map(model), messages, temperature)
    ELSE OpenaiData(model, messages, temperature)

---------------------------------------------------------------------------
(* SpecRequest: one request built from a context and a forwarded text, for *)
(* both clients, every temperature, turn lists with at most one system     *)
(* turn anywhere, and lists of attached files.                             *)

\* Turns of a context, at most.
MaxTurns == 2

\* --temperature: not given, or a float
Temperatures ==
    { None } \cup { JVal("num", t, <<>>) : t \in {"0.0", "0.7", "1.0", "2.0"} }

RequestTurns ==
    [role : {ROLE_USER, ROLE_ASSISTANT, ROLE_SYSTEM}, content : {"a", "b"},
     item_id : {"unset"}]

RequestHistories ==
    { h \in UNION { [1..n -> RequestTurns] : n \in 0..MaxTurns } :
          \A i, j \in 1..Len(h) :
              (h[i].role = ROLE_SYSTEM /\ h[j].role = ROLE_SYSTEM) => i = j }

RequestInit ==
    /\ \E m \in Models, t \in Temperatures :
           /\ args = [model |-> m, system_prompt |-> FALSE, log |-> FALSE,
                      restore |-> FALSE, temperature |-> t]
           /\ api = ClientOf(m)
    /\ request = NoRequest
    /\ body = "" /\ pos = 0 /\ buffer = "" /\ scan = 0
    /\ gen = "idle" /\ emitted = <<>> /\ exc = ""
    /\ history \in RequestHistories
    /\ \E n \in 0..MaxFiles : \E names \in [1..n -> DOMAIN Disk] : files = AttachAll(names)
    /\ clipboard = ""
    /\ prompt = "tell me more"
    /\ ret = <<prompt, "">>
    /\ result = ""
    /\ response_counter = 0
    /\ log_disk = [exists |-> FALSE, text |-> ""]
    /\ pc = "ready"
    /\ todo = <<>>
    /\ runs = [exchanges |-> 0]
    /\ httpcache = NoCache
    /\ sink = NoSink
    /\ log_file = "None"

\* client.user_query_streamed(context.build_messages(prompt_modified),
\* args.temperature), up to the request
RequestSend ==
    /\ pc = "ready"
    /\ request' = RequestData(args.model,
                              build_messages([history |-> history, files |-> files], ret[1]),
                              args.temperature)
    /\ pc' = "sent"
    /\ UNCHANGED <<api, body, pos, buffer, scan, gen, emitted, exc, ctxVars,
                   result, response_counter, log_disk, args, todo, httpcache, sink, log_file, runs>>

SpecRequest == RequestInit /\ [][RequestSend]_vars

\* the positions at which sub starts in s
Occurrences(s, sub) ==
    { i \in 1..(Len(s) - Len(sub) + 1) : SubSeq(s, i, i + Len(sub) - 1) = sub }

\* the n-th element of a set of numbers, in increasing order
Nth(S, n) == CHOOSE i \in S : Cardinality({ j \in S : j < i }) = n - 1

\* sub stands at position i of s
StandsAt(s, i, sub) == i + Len(sub) - 1 <= Len(s) /\ SubSeq(s, i, i + Len(sub) - 1) = sub

\* the new user message of the request sent
Outbound == request.messages[Len(request.messages)].content

\* C17: without attached files the new user message is the forwarded text
\* unchanged; with N >= 1 attached files it holds exactly N file blocks, the
\* i-th of them carrying the filename and the content of the i-th attached
\* entry, and after the last block it ends with the forwarded text.
C17_OutboundMessage ==
    pc = "sent" =>
        IF files = <<>> THEN Outbound = ret[1]
        ELSE LET marks == Occurrences(Outbound, "<FILENAME>")
                 text_at == Len(Outbound) - Len(ret[1]) + 1
             IN  /\ Cardinality(marks) = Len(files)
                 /\ Cardinality(Occurrences(Outbound, "<FILECONTENT>")) = Len(files)
                 /\ \A i \in 1..Len(files) :
                        /\ StandsAt(Outbound, Nth(marks, i), FileBlock(files[i]))
                        /\ Nth(marks, i) + Len(FileBlock(files[i])) <= text_at
                 /\ StandsAt(Outbound, text_at, ret[1])

\* C17 witness: a request was sent with the same file attached twice and
\* another turn in history
C17_Witness ==
    /\ pc = "sent"
    /\ Len(files) = 2 /\ files[1] = files[2]
    /\ Len(request.messages) >= 2

\* the positions of the turns of h that are no system turns
NonSystemAt(h) == { i \in 1..Len(h) : h[i].role # ROLE_SYSTEM }

Reduced(turn) == [role |-> turn.role, content |-> turn.content]

\* C19: the OpenAI client sends every turn, system turns included, in order
\* and then the new user message; the Anthropic client sends as messages
\* exactly the turns that are no system turns, in their order, then the new
\* user message, and puts the content of the system turn in the field
\* "system", which is empty when there is no system turn.
C19_RequestShaping ==
    pc = "sent" =>
        LET n == Len(request.messages) IN
        /\ request.messages[n].role = ROLE_USER
        /\ IF api = "openai"
           THEN /\ n = Len(history) + 1
                /\ \A i \in 1..Len(history) : request.messages[i] = Reduced(history[i])
                /\ "system" \notin DOMAIN request
           ELSE /\ n = Cardinality(NonSystemAt(history)) + 1
                /\ \A k \in 1..(n - 1) :
                       request.messages[k] = Reduced(history[Nth(NonSystemAt(history), k)])
                /\ request.system =
                       IF \E i \in 1..Len(history) : history[i].role = ROLE_SYSTEM
                       THEN history[CHOOSE i \in 1..Len(history) :
                                        history[i].role = ROLE_SYSTEM].content
                       ELSE ""

\* C19 witness: the Anthropic client has sent a request for a turn list
\* whose system turn stands after a user turn
C19_Witness ==
    /\ pc = "sent"
    /\ api = "anthropic"
    /\ Len(history) = 2
    /\ history[1].role = ROLE_USER /\ history[2].role = ROLE_SYSTEM
    /\ request.system = history[2].content
    /\ Len(request.messages) = 2

\* C20 (as claimed): the request carries exactly the temperature the caller
\* supplied, whatever its value, and 1.0 only when none was supplied.
C20_TemperaturePassThrough ==
    pc = "sent" =>
        request.temperature =
            IF args.temperature = None THEN JVal("num", "1.0", <<>>) ELSE args.temperature

---------------------------------------------------------------------------
(* Spec: sessions of main.  One log file is on disk; --log appends to it   *)
(* and --restore replays it.  A new process may start after one has ended. *)

\* Prompts forwarded to a provider over all the sessions, at most.
MaxExchanges == 2

\* the prompts read_prompt returns (stripped, not empty)
SessionPrompts == {"hi", "/ph"}

\* the response bodies a provider sends: a reply, an empty reply, and a reply
\* that breaks off with a payload that cannot be decoded
SessionBodies(a) ==
    IF a = "anthropic"
    THEN { "event: content_block_delta\ndata: {\"delta\": {\"text\": \"abc\"}}\n\n",
           "data: {\"type\": \"ping\"}\n",
           "data: {\"delta\": {\"text\": \"abc\"}}\ndata: {\"delta\"\n" }
    ELSE { "data: {\"choices\": [{\"delta\": {\"content\": \"abc\"}}]}\n\ndata: [DONE]\n\n",
           "data: [DONE]\n",
           "data: {\"choices\": [{\"delta\": {\"content\": \"abc\"}}]}\ndata: {\"choices\"\n" }

\* what urllib.request.urlopen raises when the transport fails
TransportErrors == {"HTTPError", "URLError"}

\* f"r{response_counter}"
ItemId(n) == "r" \o Str(n)

\* lines 500-502, finally: if log_file: log_file.close()
Close(f) == IF f = "open" THEN "closed" ELSE f

\* log_file.write: nothing without --log
LogAppend(file, a, line) ==
    IF a.log THEN [exists |-> TRUE, text |-> file.text \o line] ELSE file

\* main, lines 421-454: the state of a process that reaches its first
\* prompt, started with the arguments a, the log file being `file`
Startup(a, file) ==
    /\ args' = a
    /\ api' = ClientOf(a.model)
    /\ request' = NoRequest
    /\ history' = IF a.restore
                  THEN restore_chat_history(StartHistory(a), file)
                  ELSE StartHistory(a)
    /\ files' = <<>>
    \* open(args.log, "a") creates the file
    /\ log_disk' = IF a.log THEN [file EXCEPT !.exists = TRUE] ELSE file
    /\ log_file' = IF a.log THEN "open" ELSE "None"
    /\ response_counter' = 0
    /\ prompt' = ""
    /\ ret' = <<>>
    /\ result' = ""
    /\ exc' = ""
    /\ pc' = "prompt"
    /\ body' = "" /\ pos' = 0 /\ buffer' = "" /\ scan' = 0
    /\ gen' = "idle" /\ emitted' = <<>>

ArgSets ==
    [model : Models, system_prompt : BOOLEAN, log : BOOLEAN, restore : BOOLEAN,
     temperature : {None}, oneshot : {FALSE}]

Init ==
    /\ \E a \in ArgSets :
        /\ args = a
        /\ api = ClientOf(a.model)
        /\ request = NoRequest
        /\ history = IF a.restore
                     THEN restore_chat_history(StartHistory(a), [exists |-> FALSE, text |-> ""])
                     ELSE StartHistory(a)
        /\ log_disk = [exists |-> a.log, text |-> ""]
        /\ log_file = IF a.log THEN "open" ELSE "None"
    /\ files = <<>>
    /\ clipboard = ""
    /\ response_counter = 0
    /\ prompt = ""
    /\ ret = <<>>
    /\ result = ""
    /\ exc = ""
    /\ pc = "prompt"
    /\ body = "" /\ pos = 0 /\ buffer = "" /\ scan = 0
    /\ gen = "idle" /\ emitted = <<>>
    /\ todo = <<>>
    /\ runs = [exchanges |-> 0]
    /\ httpcache = NoCache
    /\ sink = NoSink

\* a new process is started after the last one has ended: the same command
\* line again, with or without --restore
Restart ==
    /\ pc = "exit"
    /\ \E r \in BOOLEAN : Startup([args EXCEPT !.restore = r], log_disk)
    /\ UNCHANGED <<clipboard, todo, httpcache, sink, runs>>

\* lines 469-473: read_prompt returns "" and the loop continues
ReadEmpty ==
    /\ pc = "prompt"
    /\ prompt' = ""
    /\ UNCHANGED <<decVars, history, files, clipboard, ret, mainVars>>

\* lines 468-471 and 500-502: EOFError ends the loop, the log file is closed
ReadEOF ==
    /\ pc = "prompt"
    /\ pc' = "exit"
    /\ log_file' = Close(log_file)
    /\ UNCHANGED <<decVars, ctxVars, result, response_counter, log_disk, args, todo, httpcache, sink, runs>>

\* (faulty variant of Command) the line is logged before it is processed
CommandLoggedFirst(p, copied) ==
    /\ pc = "prompt"
    /\ CallProcessPrompt(p, copied)
    /\ ret'[2] # ""
    /\ Len(files') <= MaxFiles
    /\ log_disk' = LogAppend(log_disk, args, log_message(ROLE_USER, p, None, None, None))
    /\ pc' = IF args.oneshot THEN "exit" ELSE "prompt"
    /\ log_file' = IF pc' = "exit" THEN Close(log_file) ELSE log_file
    /\ UNCHANGED <<decVars, result, response_counter, args, todo, httpcache, sink, runs>>

\* lines 475-477: the prompt is a command, its message is printed
Command(p, copied) ==
    /\ pc = "prompt"
    /\ CallProcessPrompt(p, copied)
    /\ ret'[2] # ""
    /\ Len(files') <= MaxFiles
    \* lines 498-499: if args.oneshot: break
    /\ pc' = IF args.oneshot THEN "exit" ELSE "prompt"
    /\ log_file' = IF pc' = "exit" THEN Close(log_file) ELSE log_file
    /\ UNCHANGED <<decVars, result, response_counter, log_disk, args, todo, httpcache, sink, runs>>

\* (faulty variant of Forward) the user entry is logged once urlopen has returned
ForwardLogsAfterRequest(p, copied, outcome) ==
    /\ pc = "prompt"
    /\ runs.exchanges < MaxExchanges
    /\ CallProcessPrompt(p, copied)
    /\ ret'[2] = "" /\ ret'[1] # ""
    /\ log_disk' = IF outcome \in TransportErrors
                   THEN log_disk
                   ELSE LogAppend(log_disk, args, log_message(ROLE_USER, p, None, None, None))
    /\ result' = ""
    /\ emitted' = <<>>
    /\ buffer' = ""
    /\ pos' = 0
    /\ scan' = 0
    /\ IF outcome \in TransportErrors
       THEN /\ exc' = outcome
            /\ pc' = "exit"
            /\ gen' = "raised"
            /\ body' = ""
       ELSE /\ exc' = ""
            /\ pc' = "stream"
            /\ gen' = "read"
            /\ body' = outcome
    /\ runs' = [runs EXCEPT !.exchanges = @ + 1]
    /\ request' = RequestData(args.model,
                               build_messages([history |-> history', files |-> files'], ret'[1]),
                               args.temperature)
    /\ log_file' = IF pc' = "exit" THEN Close(log_file) ELSE log_file
    /\ UNCHANGED <<api, response_counter, args, todo, httpcache, sink>>

\* lines 478-485, up to the first step of the generator: the user entry is
\* logged, the request is sent, and urlopen either raises (outcome is the
\* exception) or returns the response whose body is outcome
Forward(p, copied, outcome) ==
    /\ pc = "prompt"
    /\ runs.exchanges < MaxExchanges
    /\ CallProcessPrompt(p, copied)
    /\ ret'[2] = "" /\ ret'[1] # ""
    /\ log_disk' = LogAppend(log_disk, args, log_message(ROLE_USER, p, None, None, None))
    /\ result' = ""
    /\ emitted' = <<>>
    /\ buffer' = ""
    /\ pos' = 0
    /\ scan' = 0
    /\ IF outcome \in TransportErrors
       THEN /\ exc' = outcome
            /\ pc' = "exit"
            /\ gen' = "raised"
            /\ body' = ""
       ELSE /\ exc' = ""
            /\ pc' = "stream"
            /\ gen' = "read"
            /\ body' = outcome
    /\ runs' = [runs EXCEPT !.exchanges = @ + 1]
    /\ request' = RequestData(args.model,
                               build_messages([history |-> history', files |-> files'], ret'[1]),
                               args.temperature)
    /\ log_file' = IF pc' = "exit" THEN Close(log_file) ELSE log_file
    /\ UNCHANGED <<api, response_counter, args, todo, httpcache, sink>>

\* lines 482-487: the generator runs to its next yield, and the chunk is
\* echoed and added to result.  fh.read(100) of an HTTP response returns 100
\* bytes, or what is left of the body.
Stream ==
    /\ pc = "stream"
    /\ \/ GenRead(Min(READ_SIZE, IF pos = Len(body) THEN 1 ELSE Len(body) - pos))
       \/ GenScan
    /\ result' = IF Len(emitted') > Len(emitted)
                 THEN result \o emitted'[Len(emitted')]
                 ELSE result
    /\ UNCHANGED <<ctxVars, response_counter, log_disk, args, pc, todo, httpcache, sink, log_file, runs>>

\* (faulty variant of Abort) the partial reply is kept as a turn when the stream fails
AbortKeepsPartial ==
    /\ pc = "stream"
    /\ gen = "raised"
    /\ history' = add_history(add_history(history, ROLE_USER, prompt, "unset"),
                              ROLE_ASSISTANT, result, ItemId(response_counter))
    /\ pc' = "exit"
    /\ log_file' = Close(log_file)
    /\ UNCHANGED <<decVars, files, clipboard, prompt, ret,
                   result, response_counter, log_disk, args, todo, httpcache, sink, runs>>

\* lines 482-487 and 500-502: an exception of the generator is caught
\* nowhere; it leaves main through the finally clause, which closes the log
Abort ==
    /\ pc = "stream"
    /\ gen = "raised"
    /\ pc' = "exit"
    /\ log_file' = Close(log_file)
    /\ UNCHANGED <<decVars, ctxVars, result, response_counter, log_disk, args, todo, httpcache, sink, runs>>

\* (faulty variant of Complete) the loop goes on after the exchange, --oneshot or not
CompleteGoesOn ==
    /\ pc = "stream"
    /\ gen = "done"
    /\ log_disk' = LogAppend(log_disk, args,
                             log_message(ROLE_ASSISTANT, result, PyStr(args.model),
                                         JVal("num", "0.5", <<>>),
                                         PyStr(ItemId(response_counter))))
    /\ history' = add_history(add_history(history, ROLE_USER, prompt, "unset"),
                              ROLE_ASSISTANT, result, ItemId(response_counter))
    /\ response_counter' = response_counter + 1
    /\ pc' = "prompt"
    /\ gen' = "idle"
    /\ body' = "" /\ pos' = 0 /\ buffer' = "" /\ scan' = 0 /\ emitted' = <<>>
    /\ UNCHANGED <<api, request, exc, files, clipboard, prompt, ret, result, args, todo,
                   httpcache, sink, log_file, runs>>

\* (faulty variant of Complete) the counter stays where it was
CompleteCounterStuck ==
    /\ pc = "stream"
    /\ gen = "done"
    /\ log_disk' = LogAppend(log_disk, args,
                             log_message(ROLE_ASSISTANT, result, PyStr(args.model),
                                         JVal("num", "0.5", <<>>),
                                         PyStr(ItemId(response_counter))))
    /\ history' = add_history(add_history(history, ROLE_USER, prompt, "unset"),
                              ROLE_ASSISTANT, result, ItemId(response_counter))
    /\ response_counter' = response_counter
    /\ pc' = IF args.oneshot THEN "exit" ELSE "prompt"
    /\ log_file' = IF pc' = "exit" THEN Close(log_file) ELSE log_file
    /\ gen' = "idle"
    /\ body' = "" /\ pos' = 0 /\ buffer' = "" /\ scan' = 0 /\ emitted' = <<>>
    /\ UNCHANGED <<api, request, exc, files, clipboard, prompt, ret, result, args, todo, httpcache, sink, runs>>

\* (faulty variant of Complete) the text sent to the provider is kept as the user turn
CompleteKeepsSent ==
    /\ pc = "stream"
    /\ gen = "done"
    /\ log_disk' = LogAppend(log_disk, args,
                             log_message(ROLE_ASSISTANT, result, PyStr(args.model),
                                         JVal("num", "0.5", <<>>),
                                         PyStr(ItemId(response_counter))))
    /\ history' = add_history(add_history(history, ROLE_USER, Outbound, "unset"),
                              ROLE_ASSISTANT, result, ItemId(response_counter))
    /\ response_counter' = response_counter + 1
    /\ pc' = IF args.oneshot THEN "exit" ELSE "prompt"
    /\ log_file' = IF pc' = "exit" THEN Close(log_file) ELSE log_file
    /\ gen' = "idle"
    /\ body' = "" /\ pos' = 0 /\ buffer' = "" /\ scan' = 0 /\ emitted' = <<>>
    /\ UNCHANGED <<api, request, exc, files, clipboard, prompt, ret, result, args, todo, httpcache, sink, runs>>

\* lines 488-496: the generator is exhausted; the assistant entry is logged,
\* both turns are appended and the counter advances
Complete ==
    /\ pc = "stream"
    /\ gen = "done"
    /\ log_disk' = LogAppend(log_disk, args,
                             log_message(ROLE_ASSISTANT, result, PyStr(args.model),
                                         JVal("num", "0.5", <<>>),
                                         PyStr(ItemId(response_counter))))
    /\ history' = add_history(add_history(history, ROLE_USER, prompt, "unset"),
                              ROLE_ASSISTANT, result, ItemId(response_counter))
    /\ response_counter' = response_counter + 1
    \* lines 498-499: if args.oneshot: break
    /\ pc' = IF args.oneshot THEN "exit" ELSE "prompt"
    /\ log_file' = IF pc' = "exit" THEN Close(log_file) ELSE log_file
    \* the generator and the response are gone
    /\ gen' = "idle"
    /\ body' = "" /\ pos' = 0 /\ buffer' = "" /\ scan' = 0 /\ emitted' = <<>>
    /\ UNCHANGED <<api, request, exc, files, clipboard, prompt, ret, result, args, todo, httpcache, sink, runs>>

Next ==
    \/ Restart
    \/ ReadEmpty
    \/ ReadEOF
    \/ \E p \in SessionPrompts, copied \in BOOLEAN : Command(p, copied)
    \/ \E p \in SessionPrompts, outcome \in SessionBodies(api) \cup TransportErrors :
           Forward(p, TRUE, outcome)
    \/ Stream
    \/ Abort
    \/ Complete

Spec == Init /\ [][Next]_vars
---------------------------------------------------------------------------
(* SpecFiles: one session of main in which files are attached and removed  *)
(* between the exchanges, and every exchange completes.                    *)

\* the lines typed: commands on the attached files, and texts to forward
FileCommands == {"/a notes.txt", "/a 1", "/r 0", "/ra"}

ForwardedTexts == {"hi", "tell me more"}

\* the response of a provider that replies
ReplyBody(a) ==
    IF a = "anthropic"
    THEN "event: content_block_delta\ndata: {\"delta\": {\"text\": \"abc\"}}\n\n"
    ELSE "data: {\"choices\": [{\"delta\": {\"content\": \"abc\"}}]}\n\ndata: [DONE]\n\n"

\* main started with or without --log, without --system-prompt and --restore
FilesInit ==
    /\ Init
    /\ ~args.system_prompt
    /\ ~args.restore

FilesNext ==
    \/ \E p \in FileCommands : Command(p, TRUE)
    \/ \E p \in ForwardedTexts : Forward(p, TRUE, ReplyBody(api))
    \/ Stream
    \/ Complete

SpecFiles == FilesInit /\ [][FilesNext]_vars
---------------------------------------------------------------------------
(* Claims on sessions.                                                     *)

\* a step that opens an exchange or moves it on without completing it
ExchangeGoesOn == pc \in {"prompt", "stream"} /\ pc' = "stream"

\* a step in which the provider call fails: urlopen raises, or the decoder does
ExchangeFails == pc \in {"prompt", "stream"} /\ pc' = "exit" /\ exc' # ""

\* the log after the step is the log before it, or that and one user entry
NoAssistantEntryWritten ==
    \/ log_disk' = log_disk
    \/ log_disk'.text = log_disk.text \o log_message(ROLE_USER, prompt', None, None, None)

\* C4: in every step of an exchange up to and including the one in which the
\* provider call fails (transport failure or decode error, before or after
\* fragments were echoed) history and the response counter stay what they
\* were and the log gains no assistant entry: a failed exchange leaves
\* history as it was before it, the counter not advanced and the log without
\* an assistant entry for it.
C4_FailedExchangeLeavesNoTrace ==
    [][ (ExchangeGoesOn \/ ExchangeFails) =>
            /\ history' = history
            /\ response_counter' = response_counter
            /\ NoAssistantEntryWritten ]_vars

\* a logging session has ended on a decode error after a fragment was echoed
C4_Witness == pc = "exit" /\ exc = "JSONDecodeError" /\ result # "" /\ args.log

\* a step that forwards a prompt
Forwards == pc = "prompt" /\ pc' = "stream"

\* a step that completes an exchange
Completes == pc = "stream" /\ pc' = "prompt"

\* the text holds a file block or the opening of a wrapped message
HoldsWrapped(text) ==
    \/ Occurrences(text, "<FILENAME>") # {}
    \/ Occurrences(text, "<FILECONTENT>") # {}
    \/ Occurrences(text, "Consider the following files:") # {}

\* C18: when a prompt p is forwarded while files are attached, the last
\* message sent is the wrapped text (every attached file and then p), not p;
\* the user entry then written to the log, and the user turn appended when
\* the exchange completes, hold exactly p; no step that changes history or
\* the log, both empty when the session starts, leaves wrapped file content
\* in a turn or in the log; and this is so for every exchange of the
\* session, so files still attached are embedded again.
C18_WrappedTextOnlyOnTheWire ==
    [][
        /\ (Forwards /\ files' # <<>>) =>
               /\ Outbound' = WrapMessage(files', prompt')
               /\ Outbound' # prompt'
               /\ \A i \in 1..Len(files') :
                      Occurrences(Outbound', FileBlock(files'[i])) # {}
        /\ (Forwards /\ args.log) =>
               log_disk'.text =
                   log_disk.text \o log_message(ROLE_USER, prompt', None, None, None)
        /\ Completes =>
               /\ Len(history') = Len(history) + 2
               /\ history'[Len(history) + 1].role = ROLE_USER
               /\ history'[Len(history) + 1].content = prompt
        /\ history' # history =>
               \A i \in 1..Len(history') : ~HoldsWrapped(history'[i].content)
        /\ log_disk' # log_disk => ~HoldsWrapped(log_disk'.text)
    ]_vars

\* C18 witness: a second exchange with a file still attached has completed
\* in a logging session, and the message sent in it embedded the file
C18_Witness ==
    /\ pc = "prompt"
    /\ response_counter = 2
    /\ files # <<>>
    /\ args.log
    /\ Len(history) = 4
    /\ HoldsWrapped(Outbound)
    /\ history[3].content = prompt

\* C5: after a transport error the session goes on to the next prompt; it
\* does not terminate.
C5_SessionSurvivesTransportError == exc \in TransportErrors => pc # "exit"

NonSystem(h) == SelectSeq(h, LAMBDA t : t.role # ROLE_SYSTEM)

\* user, assistant, user, assistant, ..., ending with an assistant turn
Alternates(ts) ==
    /\ Len(ts) % 2 = 0
    /\ \A i \in 1..Len(ts) :
           ts[i].role = IF i % 2 = 1 THEN ROLE_USER ELSE ROLE_ASSISTANT

\* C9: whenever no exchange is in flight, restored sessions included, the
\* non-system turns of history start with a user turn, strictly alternate
\* user and assistant, and end with an assistant turn.
C9_TurnsAlternate == pc = "prompt" => Alternates(NonSystem(history))

---------------------------------------------------------------------------
(* Claims on the ids of turns.                                             *)

\* a step in which a new process starts
Starts == pc = "exit" /\ pc' = "prompt"

\* the item_id of the last entry of the log file, None when it has none
LastLoggedId(text) ==
    LET ls == FileLines(text) IN
    GetOr(JsonLoads(Strip(ls[Len(ls)])).v, "item_id", None)

\* C21: the response counter is 0 when a process starts, goes up by one in
\* the step that completes an exchange and stays in every other step
\* (commands, empty prompts, streaming, failures); the exchange completed at
\* counter n appends a user turn with the id "unset" and then an assistant
\* turn with the id "r<n>", which is also the item_id of the log entry
\* written for it; and the turns the session itself adds at the start (the
\* system turn) carry "unset".
C21_ItemIds ==
    [][
        /\ Completes =>
               /\ response_counter' = response_counter + 1
               /\ Len(history') = Len(history) + 2
               /\ history'[Len(history') - 1].role = ROLE_USER
               /\ history'[Len(history') - 1].item_id = "unset"
               /\ history'[Len(history')].role = ROLE_ASSISTANT
               /\ history'[Len(history')].item_id = "r" \o Str(response_counter)
               /\ args.log =>
                      LastLoggedId(log_disk'.text) = PyStr("r" \o Str(response_counter))
        /\ Starts =>
               /\ response_counter' = 0
               /\ args'.system_prompt =>
                      history'[1].role = ROLE_SYSTEM /\ history'[1].item_id = "unset"
        /\ ~Completes /\ ~Starts => response_counter' = response_counter
    ]_vars

\* C21 witness: the second exchange of a logging process has completed, and
\* its assistant turn has the id r1 in history and in the log
C21_Witness ==
    /\ pc = "prompt"
    /\ response_counter = 2
    /\ args.log
    /\ history[Len(history)].item_id = "r1"
    /\ LastLoggedId(log_disk.text) = PyStr("r1")

---------------------------------------------------------------------------
(* Claims on user errors.                                                  *)

KnownCommands ==
    {"/add", "/a", "/remove", "/r", "/remove-all", "/ra", "/copy", "/c",
     "/pop-history", "/ph", "/print-history", "/prh", "/help", "/h"}

\* the line starts with a word that begins with "/" and is no command
IsUnknownCommand(p) ==
    StartsWith(Split1(p)[1], "/") /\ Split1(p)[1] \notin KnownCommands

\* the assistant turns of h the argument of /copy selects: every one for no
\* argument and for "c", those with the id r<k> for "r<k>" and "c<k>", none
\* for anything else
Selected(h, arg) ==
    IF arg = "" \/ arg = "c" THEN AssistantTurns(h)
    ELSE IF StartsWith(arg, "r") THEN TurnsWithId(h, arg)
    ELSE IF StartsWith(arg, "c") THEN TurnsWithId(h, "r" \o DropFirst(arg, 1))
    ELSE {}

\* the line is a /copy for which history holds nothing to copy
NothingToCopy(h, p) == IsCopy(p) /\ Selected(h, ArgOf(p)) = {}

\* C22: a call of process_prompt with an unknown command, or with a /copy
\* whose selector matches no assistant turn, returns an empty text to
\* forward (so no provider is called and no request is built) and a
\* non-empty message, raises nothing, and leaves history and files as they
\* were before the call.
C22_UserErrorLeavesContext ==
    [][ (IsUnknownCommand(prompt') \/ NothingToCopy(history, prompt')) =>
            /\ ret'[1] = "" /\ ret'[2] # ""
            /\ history' = history
            /\ files' = files
            /\ request' = request
            /\ exc' = "" ]_vars

\* C22 witness: "/c r9" was answered with a message on a context that holds
\* replies and a file, none of the replies being r9
C22_Witness ==
    /\ prompt = "/c r9"
    /\ ret # <<>> /\ ret[2] # ""
    /\ AssistantTurns(history) # {}
    /\ files # <<>>

---------------------------------------------------------------------------
(* Claims on /pop-history.                                                 *)

IsPop(p) == Split1(p)[1] \in {"/pop-history", "/ph"}

\* h ends with a user turn followed by an assistant turn
EndsWithPair(h) ==
    /\ Len(h) >= 2
    /\ h[Len(h) - 1].role = ROLE_USER
    /\ h[Len(h)].role = ROLE_ASSISTANT

\* C23: /pop-history on a history that ends with a user turn followed by an
\* assistant turn leaves exactly the turns before those two, unchanged and
\* in order; when the history is just one such pair, the history after it
\* is empty.
C23_PopHistoryDropsLastPair ==
    [][ (IsPop(prompt') /\ EndsWithPair(history)) =>
            /\ Len(history') = Len(history) - 2
            /\ \A i \in 1..Len(history') : history'[i] = history[i]
            /\ Len(history) = 2 => history' = <<>> ]_vars

\* C23 witness: /ph has dropped the pair r1 of a history that began with a
\* system turn, and the system turn and the pair r0 are what is left
C23_Witness ==
    /\ prompt = "/ph"
    /\ ret # <<>>
    /\ Len(history) = 3
    /\ history[1].role = ROLE_SYSTEM
    /\ history[3].item_id = "r0"

---------------------------------------------------------------------------
(* SpecTail: one decoder run over a response body that ends inside a line, *)
(* split into reads in every possible way.                                 *)

\* a line the body breaks off in: a whole payload without its "\n", and a
\* payload cut short
Tails(a) ==
    IF a = "anthropic"
    THEN { "data: {\"delta\": {\"text\": \"zz\"}}", "data: {\"delta\"" }
    ELSE { "data: {\"choices\": [{\"delta\": {\"content\": \"zz\"}}]}", "data: {\"choi" }

\* at most one complete line and then a line without end
TailBodies(a) ==
    { head \o tail : head \in {""} \cup Bodies(a, 1), tail \in Tails(a) }

TailInit ==
    /\ NoSession
    /\ api \in {"openai", "anthropic"}
    /\ request = NoRequest
    /\ body \in TailBodies(api)
    /\ pos = 0
    /\ buffer = ""
    /\ scan = 0
    /\ gen = "read"
    /\ emitted = <<>>
    /\ exc = ""

SpecTail == TailInit /\ [][DecNext]_vars

\* what follows the last "\n" of s
RECURSIVE Unterminated(_)
Unterminated(s) ==
    LET i == Find(s, "\n") IN
    IF i = -1 THEN s ELSE Unterminated(DropFirst(s, i + 1))

\* C24: a line of the body that no "\n" ends yields nothing and raises
\* nothing: the fragments yielded are those of the complete lines only, the
\* generator raises only at a complete line that cannot be decoded, and when
\* the body is exhausted the generator ends normally with the partial line
\* still in the buffer, which is dropped with it.
C24_PartialLineDiscarded ==
    LET ls == CompleteLines(body) IN
    /\ IsPrefix(emitted, WellFormedDeltas(api, ls))
    /\ gen = "raised" => \E i \in 1..Len(ls) : Undecodable(api, ls[i])
    /\ gen = "done" =>
           /\ pos = Len(body)
           /\ buffer = Unterminated(body)
           /\ emitted = WellFormedDeltas(api, ls)
           /\ exc = ""

\* C24 witness: the generator has ended normally after yielding a fragment,
\* and the buffer holds a whole payload that no "\n" ended
C24_Witness ==
    /\ gen = "done"
    /\ buffer \in Tails(api)
    /\ LineEvent(api, buffer).kind = "yield"
    /\ Len(emitted) = 1

---------------------------------------------------------------------------
(* SpecScan: one decoder run over bodies that end inside a line and over a *)
(* body whose first read carries as many lines as a read can carry; a read *)
(* returns one byte, half of what was asked for, or all that is there.     *)

RECURSIVE Repeat(_, _)
Repeat(s, n) == IF n = 0 THEN "" ELSE s \o Repeat(s, n - 1)

\* READ_SIZE empty lines and then a line without end
FullReadOfLines == Repeat("\n", READ_SIZE) \o "data: "

ScanInit ==
    /\ NoSession
    /\ api \in {"openai", "anthropic"}
    /\ request = NoRequest
    /\ body \in TailBodies(api) \cup {FullReadOfLines}
    /\ pos = 0
    /\ buffer = ""
    /\ scan = 0
    /\ gen = "read"
    /\ emitted = <<>>
    /\ exc = ""

ScanReadSizes ==
    { k \in ReadSizes : k \in {1, READ_SIZE \div 2} \/ k + 1 \notin ReadSizes }

ScanNext ==
    /\ \/ \E k \in ScanReadSizes : GenRead(k)
       \/ GenScan
    /\ UNCHANGED <<ctxVars, mainVars>>

SpecScan == ScanInit /\ [][ScanNext]_vars

\* C30: whenever the scan that follows a read has finished (the generator is
\* about to read again, or has ended), the buffer holds no "\n": every
\* complete line received was extracted, and what is left at the end of the
\* body is the one line that no "\n" ended.
C30_NoCompleteLineLeftAfterScan ==
    gen \in {"read", "done"} =>
        /\ Find(buffer, "\n") = -1
        /\ buffer = Unterminated(TakeFirst(body, pos))

\* C30 witness: a scan has extracted READ_SIZE lines, which is the cap of
\* the scan, and has finished with nothing left in the buffer
C30_Witness ==
    /\ gen = "read"
    /\ scan = SCAN_CAP
    /\ buffer = ""
    /\ pos = READ_SIZE

---------------------------------------------------------------------------
(* Claims on the system turn.                                              *)

\* the line of the log written so far holds an entry of the system role
SystemEntryWritten ==
    \E i \in 1..Len(Written) :
        /\ Written[i].kind = "raw"
        /\ JsonLoads(Written[i].content).ok
        /\ GetOr(JsonLoads(Written[i].content).v, "role", None) = PyStr(ROLE_SYSTEM)

\* C25: a system turn of history is its first turn, exists only when the
\* process was started with --system-prompt and is the turn built from that
\* file; restoring a log adds no system turn, entries of the system role in
\* the log included.
C25_OneSystemTurnFirst ==
    /\ \A i \in 1..Len(history) :
           history[i].role = ROLE_SYSTEM =>
               /\ i = 1
               /\ args.system_prompt
               /\ history[i] = SystemTurn
    /\ pc = "restored" =>
           Cardinality({ i \in 1..Len(history) : history[i].role = ROLE_SYSTEM })
               = IF args.system_prompt THEN 1 ELSE 0

\* C25 witness: a log that holds an entry of the system role, and a user
\* entry, was restored into a context that had its system turn
C25_Witness ==
    /\ pc = "restored"
    /\ args.system_prompt
    /\ SystemEntryWritten
    /\ Len(history) >= 2

---------------------------------------------------------------------------
(* Claims on the order of events within an exchange.                       *)

\* the value of key in the last entry of the log file
LastLogged(text, key) ==
    LET ls == FileLines(text) IN
    GetOr(JsonLoads(Strip(ls[Len(ls)])).v, key, None)

\* the log file after the step is the one before it and one more line
OneEntryAppended ==
    /\ IsPrefix(log_disk.text, log_disk'.text)
    /\ Len(FileLines(log_disk'.text)) = Len(FileLines(log_disk.text)) + 1

RECURSIVE Concat(_)
Concat(ss) == IF ss = <<>> THEN "" ELSE Head(ss) \o Concat(Tail(ss))

\* a step in which the request is issued: the response opens, or urlopen raises
RequestIssued == pc = "prompt" /\ (pc' = "stream" \/ exc' \in TransportErrors)

\* C26: in the step that issues the request the user entry with the prompt
\* as typed is in the log file, also when the request fails; while the
\* exchange is in flight the text echoed is the fragments in the order they
\* were yielded, and history, the log and the counter stay as they are; the
\* step that ends the exchange is taken only once the generator is
\* exhausted, and it writes the assistant entry with the whole text,
\* appends the user turn and then the assistant turn, and advances the
\* counter by one.
C26_OrderWithinExchange ==
    [][
        /\ (RequestIssued /\ args.log) =>
               /\ OneEntryAppended
               /\ LastLogged(log_disk'.text, "role") = PyStr(ROLE_USER)
               /\ LastLogged(log_disk'.text, "message") = PyStr(prompt')
        /\ RequestIssued => history' = history /\ response_counter' = response_counter
        /\ (pc = "stream" /\ ~Completes) =>
               /\ history' = history
               /\ log_disk' = log_disk
               /\ response_counter' = response_counter
        /\ pc' = "stream" => result' = Concat(emitted')
        /\ Completes =>
               /\ gen = "done"
               /\ result = Concat(emitted)
               /\ args.log =>
                      /\ OneEntryAppended
                      /\ LastLogged(log_disk'.text, "role") = PyStr(ROLE_ASSISTANT)
                      /\ LastLogged(log_disk'.text, "message") = PyStr(result)
               /\ history' = history \o
                      << [role |-> ROLE_USER, content |-> prompt, item_id |-> "unset"],
                         [role |-> ROLE_ASSISTANT, content |-> result,
                          item_id |-> "r" \o Str(response_counter)] >>
               /\ response_counter' = response_counter + 1
    ]_vars

\* C26 witness: a logging session has completed an exchange whose reply is
\* not empty, and the log ends with the assistant entry for it
C26_Witness ==
    /\ pc = "prompt"
    /\ response_counter = 1
    /\ args.log
    /\ result # ""
    /\ LastLogged(log_disk.text, "message") = PyStr(result)
    /\ history[Len(history)].content = result

---------------------------------------------------------------------------
(* http-caching.py: CachingHttpClient.url_get and the command line.        *)
(* httpcache.meta[u] is the metadata file of the url u in the cache        *)
(* directory (age: the seconds since last_validated_at), httpcache.requests *)
(* the HTTP requests sent, httpcache.returned what url_get gave for each   *)
(* url asked for.                                                          *)

\* Urls fetched by the command line over a run of the model, at most.
MaxFetches == 2

Urls == {"http://a/x", "http://a/y"}

\* no metadata file for the url
NoMetadata == [exists |-> FALSE, age |-> 0, etag |-> "", extension |-> ""]

\* self._calculate_content_filename(base_filename, extension)
ContentFilename(url, extension) == [url |-> url, file |-> "data." \o extension]

\* what the server answers: 200 with a body and maybe an etag, 304, an error
Responses ==
    { [status_code |-> 200, etag |-> e, extension |-> "html"] : e \in {"", "v2"} }
    \cup { [status_code |-> 304, etag |-> "", extension |-> ""],
           [status_code |-> 404, etag |-> "", extension |-> ""] }

\* (datetime.datetime.now() - validated).seconds
Seconds(age) == age % 86400

\* the returned value is appended to what the callers got
Returned(c, value) == [c EXCEPT !.returned = Append(@, value)]

\* CachingHttpClient.url_get(url, min_cache_time_s) on the cache c, the
\* server answering with response when it is asked
url_get(c, url, min_cache_time_s, response) ==
    LET metadata == c.meta[url]
        if_none_match == IF metadata.exists THEN metadata.etag ELSE ""
    IN  IF metadata.exists /\ Seconds(metadata.age) < min_cache_time_s
        THEN Returned(c, ContentFilename(url, metadata.extension))
        ELSE LET asked == [c EXCEPT !.requests =
                               Append(@, [url |-> url, if_none_match |-> if_none_match])]
             IN  IF response.status_code = 200
                 THEN Returned([asked EXCEPT !.meta[url] =
                                    [exists |-> TRUE, age |-> 0, etag |-> response.etag,
                                     extension |-> response.extension]],
                               ContentFilename(url, response.extension))
                 ELSE IF response.status_code = 304
                 THEN Returned([asked EXCEPT !.meta[url].age = 0],
                               ContentFilename(url, metadata.extension))
                 ELSE Returned(asked, [url |-> url, file |-> "HTTPError"])

\* the cache directory when the command starts: for each url no metadata,
\* or metadata validated some seconds ago
CacheEntries ==
    { NoMetadata }
    \cup { [exists |-> TRUE, age |-> a, etag |-> e, extension |-> "html"] :
               a \in {0, 5, 30}, e \in {"", "v1"} }

HttpInit ==
    /\ api = "openai" /\ request = NoRequest
    /\ body = "" /\ pos = 0 /\ buffer = "" /\ scan = 0
    /\ gen = "idle" /\ emitted = <<>> /\ exc = ""
    /\ history = <<>> /\ files = <<>> /\ clipboard = "" /\ prompt = "" /\ ret = <<>>
    /\ result = "" /\ response_counter = 0
    /\ log_disk = [exists |-> FALSE, text |-> ""]
    /\ \E n \in {0, 10, 60} : args = [app_name |-> "app", min_cache_time |-> n]
    /\ pc = "none"
    /\ todo = <<>>
    /\ runs = [exchanges |-> 0]
    /\ \E m \in [Urls -> CacheEntries] :
           httpcache = [meta |-> m, requests |-> <<>>, returned |-> <<>>]
    /\ sink = NoSink
    /\ log_file = "None"

\* main, lines 209-216: pool.submit(client.url_get, url) for a url of the
\* command line; a 304 is the answer to a request that carried an etag
HttpFetch(url, response) ==
    /\ Len(httpcache.returned) < MaxFetches
    /\ response.status_code = 304 =>
           (httpcache.meta[url].exists /\ httpcache.meta[url].etag # "")
    /\ httpcache' = url_get(httpcache, url, 0, response)
    /\ UNCHANGED <<decVars, ctxVars, result, response_counter, log_disk, args, pc, todo, runs, sink, log_file>>

HttpNext == \E url \in Urls, response \in Responses : HttpFetch(url, response)

SpecHttpCache == HttpInit /\ [][HttpNext]_vars

\* the step asks for the url u
Fetches(u) ==
    /\ Len(httpcache'.returned) = Len(httpcache.returned) + 1
    /\ httpcache'.returned[Len(httpcache'.returned)].url = u

\* the metadata of u was validated less than --min-cache-time seconds ago
Fresh(u) ==
    /\ httpcache.meta[u].exists
    /\ httpcache.meta[u].age < args.min_cache_time

\* C29 (as claimed): when the command line asks for a url whose metadata was
\* validated less than --min-cache-time seconds ago, it returns the cached
\* content file and sends no HTTP request.
C29_MinCacheTimeReusesCache ==
    [][ \A u \in Urls :
            (Fetches(u) /\ Fresh(u)) =>
                /\ httpcache'.requests = httpcache.requests
                /\ httpcache'.returned[Len(httpcache'.returned)]
                       = ContentFilename(u, httpcache.meta[u].extension) ]_vars

---------------------------------------------------------------------------
(* openai.py: OpenaiAPI.user_query_streamed, whose loop has no inner scan. *)

\* openai.py, lines 32-48: one iteration of `while response_body :=
\* fh.read(100)`: the read returns k bytes, the buffer grows, and the first
\* line of the buffer, if it holds one, is handled and cut off; b"" ends
\* the generator.  The line is read as llm-chat.py's OpenAI client reads it.
OpenaiPyIteration(k) ==
    /\ gen = "read"
    /\ IF pos = Len(body)
       THEN /\ gen' = "done"
            /\ UNCHANGED <<pos, buffer, emitted, exc>>
       ELSE /\ k \in 1..Min(READ_SIZE, Len(body) - pos)
            /\ pos' = pos + k
            /\ LET grown == buffer \o SubSeq(body, pos + 1, pos + k)
                   maybe_idx == Find(grown, "\n")
               IN  IF maybe_idx = -1
                   THEN /\ buffer' = grown
                        /\ UNCHANGED <<gen, emitted, exc>>
                   ELSE IF LineEvent("openai", TakeFirst(grown, maybe_idx)).kind = "raise"
                   THEN /\ gen' = "raised"
                        /\ exc' = LineEvent("openai", TakeFirst(grown, maybe_idx)).exc
                        /\ buffer' = grown
                        /\ UNCHANGED emitted
                   ELSE /\ emitted' = emitted
                               \o FragmentOf("openai", TakeFirst(grown, maybe_idx))
                        /\ buffer' = DropFirst(grown, maybe_idx + 1)
                        /\ UNCHANGED <<gen, exc>>
    /\ UNCHANGED <<api, request, body, scan, ctxVars, mainVars>>

OpenaiPyInit == DecInit /\ api = "openai"

OpenaiPyNext == \E k \in ReadSizes : OpenaiPyIteration(k)

SpecOpenaiPyDecode == OpenaiPyInit /\ [][OpenaiPyNext]_vars

\* C27 (as claimed): when the fragment sequence of the openai.py decoder
\* ends, every complete line of the body was extracted from the buffer and
\* handled, whatever the split of the body into reads of at most 100 bytes.
C27_OpenaiPyNoLineDropped ==
    gen = "done" =>
        /\ Find(buffer, "\n") = -1
        /\ emitted = WellFormedDeltas("openai", CompleteLines(body))

---------------------------------------------------------------------------
(* set_clipboard and the clipboard programs.  A program of the list is     *)
(* absent (Popen raises FileNotFoundError), reads its standard input, or   *)
(* exits without reading it; what is written to a program that exits       *)
(* reaches the pipe before the exit or meets a closed pipe.                *)

\* Calls of set_clipboard in a session, at most.
MaxCopies == 2

\* set_clipboard: commands
ClipboardCommands == <<"termux-clipboard-set", "pbcopy", "wl-copy">>

ProgramStates == {"absent", "reads", "exits"}

\* set_clipboard, lines 199-213, from the i-th command on; piped: the write
\* to a program that exits got through before it exited
RECURSIVE TryCommands(_, _, _, _, _)
TryCommands(i, content, programs, piped, tried) ==
    IF i > Len(ClipboardCommands)
    THEN [tried |-> tried, returned |-> "False"]
    ELSE LET command == ClipboardCommands[i] IN
         IF programs[command] = "absent"
         THEN TryCommands(i + 1, content, programs, piped, Append(tried, command))
         ELSE IF programs[command] = "exits" /\ content # "" /\ ~piped
         THEN [tried |-> Append(tried, command), returned |-> "BrokenPipeError"]
         ELSE [tried |-> Append(tried, command), returned |-> "True"]

\* set_clipboard(content)
set_clipboard(content, programs, piped) == TryCommands(1, content, programs, piped, <<>>)

\* the /copy lines typed
CopyInputs == {"/c", "/copy r0", "/c r9", "/c c"}

ClipboardInit ==
    /\ api = "openai" /\ request = NoRequest
    /\ body = "" /\ pos = 0 /\ buffer = "" /\ scan = 0
    /\ gen = "idle" /\ emitted = <<>> /\ exc = ""
    /\ history \in PromptHistories
    /\ files = <<>>
    /\ clipboard = ""
    /\ prompt = ""
    /\ ret = <<>>
    /\ result = ""
    /\ response_counter = 0
    /\ log_disk = [exists |-> FALSE, text |-> ""]
    /\ args = [model |-> "", system_prompt |-> FALSE, log |-> FALSE, restore |-> FALSE]
    /\ pc = "prompt"
    /\ todo = <<>>
    /\ runs = [exchanges |-> 0]
    /\ httpcache = NoCache
    /\ \E ps \in [{ClipboardCommands[i] : i \in 1..Len(ClipboardCommands)} -> ProgramStates] :
           sink = [programs |-> ps, calls |-> 0, tried |-> <<>>, returned |-> "none"]
    /\ log_file = "None"

\* main, lines 475-477, for a /copy line: process_prompt runs, and when it
\* calls set_clipboard the programs are tried; an exception of set_clipboard
\* leaves process_prompt and main, which catch nothing
CopyLine(p, piped) ==
    /\ pc = "prompt"
    /\ sink.calls < MaxCopies
    /\ IF ~process_prompt([history |-> history, files |-> files], p, TRUE).clip.called
       THEN /\ CallProcessPrompt(p, FALSE)
            /\ UNCHANGED <<sink, exc, pc>>
       ELSE /\ sink' = [programs |-> sink.programs,
                        calls |-> sink.calls + 1,
                        tried |-> set_clipboard(
                            process_prompt([history |-> history, files |-> files], p, TRUE).clip.content,
                            sink.programs, piped).tried,
                        returned |-> set_clipboard(
                            process_prompt([history |-> history, files |-> files], p, TRUE).clip.content,
                            sink.programs, piped).returned]
            /\ IF sink'.returned = "BrokenPipeError"
               THEN /\ exc' = "BrokenPipeError"
                    /\ pc' = "exit"
                    /\ prompt' = p
                    /\ UNCHANGED <<history, files, ret, clipboard>>
               ELSE /\ CallProcessPrompt(p, sink'.returned = "True")
                    /\ UNCHANGED <<exc, pc>>
    /\ log_file' = IF pc' = "exit" THEN Close(log_file) ELSE log_file
    /\ UNCHANGED <<api, request, body, pos, buffer, scan, gen, emitted,
                   result, response_counter, log_disk, args, todo, runs, httpcache>>

ClipboardNext == \E p \in CopyInputs, piped \in BOOLEAN : CopyLine(p, piped)

SpecClipboard == ClipboardInit /\ [][ClipboardNext]_vars

\* the commands of the list that exist, by their place in it
Existing == { i \in 1..Len(ClipboardCommands) : sink.programs[ClipboardCommands[i]] # "absent" }

\* C28 (as claimed): a call of set_clipboard tries the three programs in the
\* order of the list; when one exists it stops at the first that does and
\* returns success, raising nothing; when none exists it has tried all three,
\* returns failure without raising, and /copy answers "Failed to copy ...".
C28_ClipboardBestEffort ==
    [][ sink'.calls # sink.calls =>
            IF Existing = {}
            THEN /\ sink'.tried = ClipboardCommands
                 /\ sink'.returned = "False"
                 /\ exc' = "" /\ pc' = "prompt"
                 /\ StartsWith(ret'[2], "Failed to copy ")
            ELSE /\ sink'.tried = SubSeq(ClipboardCommands, 1, First(Existing))
                 /\ sink'.returned = "True"
                 /\ exc' = "" /\ pc' = "prompt"
                 /\ StartsWith(ret'[2], "Copied ") ]_vars

---------------------------------------------------------------------------
(* Claims on the messages of a forwarded prompt *)

\* the turns of history in order, role and content only, then one user
\* message for the forwarded text
TurnsThenPrompt ==
    [i \in 1..(Len(history) + 1) |->
        IF i <= Len(history)
        THEN [role |-> history[i].role, content |-> history[i].content]
        ELSE [role |-> ROLE_USER, content |-> WrapMessage(files, ret[1])]]

\* the messages of r that hold text
Holding(r, text) ==
    { i \in DOMAIN r.messages : Occurrences(r.messages[i].content, text) # {} }

\* C31: the messages handed to the client for a forwarded prompt are the
\* turns of history in order, each with its role and content only, followed
\* by one new user message; building them changes neither history nor
\* files, and the forwarded text stands in exactly one message of the
\* request.
C31_MessagesOfForwardedPrompt ==
    [][
        /\ (pc = "ready" /\ pc' = "sent") =>
            /\ history' = history
            /\ files' = files
            /\ request' = RequestData(args.model, TurnsThenPrompt, args.temperature)
            /\ Cardinality(Holding(request', ret[1])) = 1
            /\ \A i \in DOMAIN request'.messages :
                   DOMAIN request'.messages[i] = {"role", "content"}
    ]_vars

\* C31 witness: a request was sent by the OpenAI client for a history of two
\* turns and an attached file
C31_Witness ==
    /\ pc = "sent"
    /\ api = "openai"
    /\ Len(history) = 2
    /\ Len(files) >= 1
    /\ Len(request.messages) = 3
    /\ Holding(request, ret[1]) = {3}

---------------------------------------------------------------------------
(* Claims on the system prompt *)

\* C32 (as claimed): when a system prompt was loaded at startup, every
\* request sent in the session carries it, as the first message for the
\* OpenAI client and as the field "system" for the Anthropic client,
\* whatever commands and exchanges came before.
C32_SystemPromptInEveryRequest ==
    (args.system_prompt /\ request # NoRequest) =>
        IF api = "openai"
        THEN request.messages[1] = [role |-> ROLE_SYSTEM, content |-> SystemTurn.content]
        ELSE request.system = SystemTurn.content

---------------------------------------------------------------------------
(* Claims on the uniqueness of item ids *)

\* C33 (as claimed): no two assistant turns of history have the same
\* item_id, in sessions started with --restore from the log of an earlier
\* session too.
C33_ItemIdsUnique ==
    \A i, j \in AssistantTurns(history) :
        history[i].item_id = history[j].item_id => i = j

---------------------------------------------------------------------------
(* Claims on what /copy designates *)

\* the message of a /copy that called set_clipboard for the turn with this id
CopyMessage(word, id, arg) ==
    word \o id \o (IF StartsWith(arg, "c") THEN " code" ELSE "") \o " to clipboard"

\* C34 (as claimed): when /copy calls set_clipboard or reports "Copied
\* <id> ...", history holds an assistant turn whose item_id is <id>, and the
\* text handed to the clipboard is the content of that turn (its code lines
\* for a selector that starts with c); in every other case the message is
\* "Could not find item to copy".
C34_CopyDesignatesATurn ==
    (ret # <<>> /\ IsCopy(prompt)) =>
        IF ClipboardCalled(ret)
        THEN \E i \in AssistantTurns(history), word \in {"Copied ", "Failed to copy "} :
                 /\ ret[2] = CopyMessage(word, history[i].item_id, ArgOf(prompt))
                 /\ word = "Copied " =>
                        clipboard =
                            IF StartsWith(ArgOf(prompt), "c")
                            THEN JoinNewline(CodeLines(SplitLines(history[i].content), "start"))
                            ELSE history[i].content
        ELSE ret = <<"", "Could not find item to copy">>

---------------------------------------------------------------------------
(* SpecCode: /copy with a c selector on one reply made of text lines,      *)
(* fence lines with and without a language, indented fences and empty      *)
(* lines, with and without a final line break.                             *)

\* Lines of the reply, at most.
MaxReplyLines == 3

ReplyLineKinds == {"~~~", "~~~py", "x = 1", " ~~~", ""}

ReplyTexts ==
    { JoinNewline(ls) \o end :
          ls \in UNION { [1..n -> ReplyLineKinds] : n \in 0..MaxReplyLines },
          end \in {"", "\n"} }

CodeSelectors == {"/c c", "/copy c0"}

CodeInit ==
    /\ api = "openai" /\ request = NoRequest
    /\ body = "" /\ pos = 0 /\ buffer = "" /\ scan = 0
    /\ gen = "idle" /\ emitted = <<>> /\ exc = ""
    /\ \E text \in ReplyTexts :
           history = <<[role |-> ROLE_USER, content |-> "hi", item_id |-> "unset"],
                       [role |-> ROLE_ASSISTANT, content |-> text, item_id |-> "r0"]>>
    /\ files = <<>>
    /\ clipboard = ""
    /\ prompt = ""
    /\ ret = <<>>
    /\ result = ""
    /\ response_counter = 1
    /\ log_disk = [exists |-> FALSE, text |-> ""]
    /\ args = [model |-> "", system_prompt |-> FALSE, log |-> FALSE, restore |-> FALSE]
    /\ pc = "none"
    /\ todo = <<>>
    /\ runs = [exchanges |-> 0]
    /\ httpcache = NoCache
    /\ sink = NoSink
    /\ log_file = "None"

\* process_prompt for a /copy line with a c selector
CodeCopy ==
    \E p \in CodeSelectors, copied \in BOOLEAN :
        /\ CallProcessPrompt(p, copied)
        /\ UNCHANGED <<decVars, mainVars>>

SpecCode == CodeInit /\ [][CodeCopy]_vars

\* the line begins with the fence
IsFenceLine(line) == StartsWith(line, Fence)

\* the fence lines of ls that open a fence: the first, the third, ...
Openers(ls) ==
    { j \in 1..Len(ls) :
          /\ IsFenceLine(ls[j])
          /\ Cardinality({ k \in 1..(j - 1) : IsFenceLine(ls[k]) }) % 2 = 0 }

\* the lines of ls after an opening fence line with no fence line up to them
InsideFence(ls) ==
    { i \in 1..Len(ls) :
          \E j \in Openers(ls) :
              j < i /\ \A k \in (j + 1)..i : ~IsFenceLine(ls[k]) }

\* C35: the text copied for a c selector is made of exactly the lines of the
\* selected reply that stand after a line beginning with the fence that
\* opens a fence and before the next line beginning with the fence, joined
\* by line breaks in their order; no fence line and no line outside a fence
\* is in it.
C35_CodeExtraction ==
    (ret # <<>> /\ StartsWith(ret[2], "Copied ")) =>
        LET ls == SplitLines(history[2].content) IN
        clipboard = JoinNewline([n \in 1..Cardinality(InsideFence(ls)) |->
                                     ls[Nth(InsideFence(ls), n)]])

\* C35 witness: the code of a reply with a fence that names a language was
\* copied, the text after the closing fence was not
C35_Witness ==
    /\ ret = <<"", "Copied r0 code to clipboard">>
    /\ history[2].content = "~~~py\nx = 1\n~~~"
    /\ clipboard = "x = 1"

---------------------------------------------------------------------------
(* SpecCommands: one session of main in which every command is entered     *)
(* between exchanges that complete, in a process started with --log, with *)
(* and without --system-prompt.                                            *)

CommandLines ==
    {"/a notes.txt", "/add nope.txt", "/r 0", "/ra",
     "/c", "/copy c0", "/ph", "/prh", "/h", "/nope"}

CommandsInit ==
    /\ Init
    /\ args.log
    /\ ~args.restore

CommandsNext ==
    \/ \E p \in CommandLines : Command(p, TRUE)
    \/ Forward("hi", TRUE, ReplyBody(api))
    \/ Stream
    \/ Complete

SpecCommands == CommandsInit /\ [][CommandsNext]_vars

\* the first word of the line
CommandOf(p) == Split1(p)[1]

\* C36: /add, /remove and /remove-all leave history as it is; /pop-history
\* leaves the list of files as it is; /copy, /print-history, /help and
\* unknown commands leave both; and no command adds an entry to the log,
\* takes one away or advances the response counter.
C36_CommandFrame ==
    [][
        /\ (pc = "prompt" /\ pc' = "prompt") =>
            /\ log_disk' = log_disk
            /\ response_counter' = response_counter
            /\ CommandOf(prompt') \in {"/add", "/a", "/remove", "/r", "/remove-all", "/ra"} =>
                   history' = history
            /\ CommandOf(prompt') \in {"/pop-history", "/ph"} => files' = files
            /\ CommandOf(prompt') \notin {"/add", "/a", "/remove", "/r", "/remove-all", "/ra",
                                          "/pop-history", "/ph"} =>
                   history' = history /\ files' = files
    ]_vars

\* C36 witness: in a session that logs, after an exchange, /pop-history has
\* emptied history while a file is attached and the log holds both entries
C36_Witness ==
    /\ pc = "prompt"
    /\ prompt = "/ph"
    /\ args.log /\ ~args.system_prompt
    /\ response_counter = 1
    /\ history = <<>>
    /\ Len(files) = 1
    /\ Len(FileLines(log_disk.text)) = 2

---------------------------------------------------------------------------
(* SpecOneshot: one process of main started with --oneshot, with empty     *)
(* lines, commands, forwarded prompts, failures and the end of the input.  *)

OneshotArgSets ==
    [model : Models, system_prompt : BOOLEAN, log : BOOLEAN, restore : {FALSE},
     temperature : {None}, oneshot : {TRUE}]

OneshotLines == {"hi", "/h", "/ph", "/nope"}

OneshotInit ==
    /\ \E a \in OneshotArgSets :
        /\ args = a
        /\ api = ClientOf(a.model)
        /\ history = StartHistory(a)
        /\ log_disk = [exists |-> a.log, text |-> ""]
        /\ log_file = IF a.log THEN "open" ELSE "None"
    /\ request = NoRequest
    /\ files = <<>>
    /\ clipboard = ""
    /\ response_counter = 0
    /\ prompt = ""
    /\ ret = <<>>
    /\ result = ""
    /\ exc = ""
    /\ pc = "prompt"
    /\ body = "" /\ pos = 0 /\ buffer = "" /\ scan = 0
    /\ gen = "idle" /\ emitted = <<>>
    /\ todo = <<>>
    /\ runs = [exchanges |-> 0]
    /\ httpcache = NoCache
    /\ sink = NoSink

OneshotNext ==
    \/ ReadEmpty
    \/ ReadEOF
    \/ \E p \in OneshotLines, copied \in BOOLEAN : Command(p, copied)
    \/ \E p \in OneshotLines, outcome \in SessionBodies(api) \cup TransportErrors :
           Forward(p, TRUE, outcome)
    \/ Stream
    \/ Abort
    \/ Complete

SpecOneshot == OneshotInit /\ [][OneshotNext]_vars

\* C37: with --oneshot the loop ends with the first prompt that is not
\* empty: while the process is at its prompt no line was processed and no
\* request was made, once a line was processed the process never reads a
\* prompt again, at most one request is made in the run, and at the exit the
\* log file is closed (there is none without --log).
C37_OneshotOnePromptOneCall ==
    /\ [](pc = "prompt" => (ret = <<>> /\ runs.exchanges = 0))
    /\ [][pc # "prompt" => pc' # "prompt"]_vars
    /\ [][ret' # ret => pc' \in {"stream", "exit"}]_vars
    /\ [](runs.exchanges <= 1)
    /\ [](pc = "exit" => log_file = IF args.log THEN "closed" ELSE "None")

\* C37 witness: a logging --oneshot process has ended after one completed
\* exchange
C37_Witness ==
    /\ args.oneshot /\ args.log
    /\ pc = "exit"
    /\ exc = ""
    /\ runs.exchanges = 1
    /\ response_counter = 1
    /\ log_file = "closed"

---------------------------------------------------------------------------
(* SpecHttpPool: one invocation of http-caching.py.  main submits one      *)
(* url_get per url to a pool of max_threads workers and writes the rows;   *)
(* the workers run url_get step by step, interleaved.                      *)

\* Urls of one invocation, at most.
MaxUrls == 2

\* sys.stdin.readlines(): every line ends with its line break
StdinLines == { u \o "\n" : u \in Urls }

\* self.cache_dir / (base_filename + ".json")
MetadataFilename(url) == [url |-> url, file |-> "json"]

\* the variables no step of http-caching.py changes
poolFrame == <<api, request, body, pos, buffer, scan, gen, emitted, ctxVars,
               result, response_counter, log_disk, args, todo, runs, sink, log_file>>

\* the command lines: urls as arguments, or "-" and the urls on stdin
PoolInit ==
    /\ api = "openai" /\ request = NoRequest
    /\ body = "" /\ pos = 0 /\ buffer = "" /\ scan = 0
    /\ gen = "idle" /\ emitted = <<>> /\ exc = ""
    /\ history = <<>> /\ files = <<>> /\ clipboard = "" /\ prompt = "" /\ ret = <<>>
    /\ result = "" /\ response_counter = 0
    /\ log_disk = [exists |-> FALSE, text |-> ""]
    /\ \E f \in {"path", "csv"}, t \in {1, 2} :
       \E n \in 0..MaxUrls : \E us \in [1..n -> Urls], dash \in BOOLEAN :
           /\ dash \/ n > 0
           /\ args = [app_name |-> "app", url |-> IF dash THEN <<"-">> ELSE us,
                      output_format |-> f, max_threads |-> t, min_cache_time |-> 0]
           /\ \E m \in [Urls -> {NoMetadata,
                                 [exists |-> TRUE, age |-> 5, etag |-> "v1",
                                  extension |-> "html"]}] :
                  httpcache = [meta |-> [k \in Urls \cup StdinLines |->
                                             IF k \in Urls THEN m[k] ELSE NoMetadata],
                               requests |-> <<>>, returned |-> <<>>,
                               stdin |-> IF dash THEN [i \in 1..n |-> us[i] \o "\n"] ELSE <<>>,
                               futures |-> <<>>, written |-> <<>>, rows |-> <<>>]
    /\ pc = "submit"
    /\ todo = <<>>
    /\ runs = [exchanges |-> 0]
    /\ sink = NoSink
    /\ log_file = "None"

\* line 208: iterator = sys.stdin.readlines if args.url[0] == "-" else lambda: args.url
Iterator == IF args.url[1] = "-" THEN httpcache.stdin ELSE args.url

\* line 215: [pool.submit(client.url_get, url) for url in iterator()]
PoolSubmit ==
    /\ pc = "submit"
    /\ httpcache' = [httpcache EXCEPT !.futures =
                        [i \in 1..Len(Iterator) |->
                            [url |-> Iterator[i], at |-> "queued", if_none_match |-> "",
                             etag |-> "", extension |-> "", result |-> <<>>]]]
    /\ pc' = "rows"
    /\ UNCHANGED <<exc, poolFrame>>

\* the futures a worker is running
Running == { k \in 1..Len(httpcache.futures) :
                 httpcache.futures[k].at \notin {"queued", "done"} }

\* a free worker takes the next queued call; url_get, lines 47-72: the
\* metadata is read if its file exists; (now - validated).seconds is never
\* below min_cache_time_s = 0
WorkerStart(k) ==
    /\ httpcache.futures[k].at = "queued"
    /\ \A j \in 1..(k - 1) : httpcache.futures[j].at # "queued"
    /\ Cardinality(Running) < args.max_threads
    /\ LET metadata == httpcache.meta[httpcache.futures[k].url] IN
       httpcache' = [httpcache EXCEPT
                        !.futures[k].at = "request",
                        !.futures[k].if_none_match =
                            IF metadata.exists THEN metadata.etag ELSE ""]
    /\ UNCHANGED <<exc, pc, poolFrame>>

\* url_get, lines 73-75, 99 and 109-119: the request and the server's answer
WorkerRequest(k, response) ==
    /\ httpcache.futures[k].at = "request"
    /\ response.status_code = 304 => httpcache.futures[k].if_none_match # ""
    /\ httpcache' = [httpcache EXCEPT
                        !.requests = Append(@, [url |-> httpcache.futures[k].url,
                                                if_none_match |->
                                                    httpcache.futures[k].if_none_match]),
                        !.futures[k].at =
                            IF response.status_code = 200 THEN "content"
                            ELSE IF response.status_code = 304 THEN "revalidate"
                            ELSE "done",
                        !.futures[k].result =
                            IF response.status_code = 200
                            THEN ContentFilename(httpcache.futures[k].url, response.extension)
                            ELSE IF response.status_code = 304 THEN <<>>
                            ELSE [url |-> httpcache.futures[k].url, file |-> "HTTPError"],
                        !.futures[k].etag = response.etag,
                        !.futures[k].extension = response.extension]
    /\ UNCHANGED <<exc, pc, poolFrame>>

\* url_get, lines 76-87: open(content_filename, "wb"), fh.write(response["body"])
WorkerWriteContent(k) ==
    /\ httpcache.futures[k].at = "content"
    /\ httpcache' = [httpcache EXCEPT
                        !.futures[k].at = "metadata",
                        !.written = Append(@, [file |-> httpcache.futures[k].result,
                                               by |-> k])]
    /\ UNCHANGED <<exc, pc, poolFrame>>

\* url_get, lines 89-98: the metadata is written, the content filename returned
WorkerWriteMetadata(k) ==
    /\ httpcache.futures[k].at = "metadata"
    /\ LET url == httpcache.futures[k].url IN
       httpcache' = [httpcache EXCEPT
                        !.meta[url] = [exists |-> TRUE, age |-> 0,
                                       etag |-> httpcache.futures[k].etag,
                                       extension |-> httpcache.futures[k].extension],
                        !.written = Append(@, [file |-> MetadataFilename(url), by |-> k]),
                        !.futures[k].at = "done"]
    /\ UNCHANGED <<exc, pc, poolFrame>>

\* url_get, lines 99-108: after a 304 the metadata is read, written back with
\* the new time, and the content filename returned
WorkerRevalidate(k) ==
    /\ httpcache.futures[k].at = "revalidate"
    /\ LET url == httpcache.futures[k].url IN
       httpcache' = [httpcache EXCEPT
                        !.meta[url].age = 0,
                        !.written = Append(@, [file |-> MetadataFilename(url), by |-> k]),
                        !.futures[k].at = "done",
                        !.futures[k].result =
                            ContentFilename(url, httpcache.meta[url].extension)]
    /\ UNCHANGED <<exc, pc, poolFrame>>

\* the result of the future is an HTTPError
Failed(future) == future.result.file = "HTTPError"

\* lines 212-233: the next element of zip(range(len(args.url)), args.url,
\* futures), once its future has a result; csv writes a row for a result and
\* for an HTTPError, path writes the result and lets an HTTPError through
PoolRow ==
    /\ pc = "rows"
    /\ LET i == Len(httpcache.rows) + 1 IN
       IF i > Min(Len(args.url), Len(httpcache.futures))
       THEN /\ pc' = "leave"
            /\ UNCHANGED <<exc, httpcache>>
       ELSE /\ httpcache.futures[i].at = "done"
            /\ IF args.output_format = "csv"
               THEN /\ httpcache' = [httpcache EXCEPT !.rows = Append(@,
                           IF Failed(httpcache.futures[i])
                           THEN [url |-> args.url[i], status |-> "code", file |-> ""]
                           ELSE [url |-> args.url[i], status |-> "ok",
                                 file |-> httpcache.futures[i].result])]
                    /\ UNCHANGED <<exc, pc>>
               ELSE IF Failed(httpcache.futures[i])
               THEN /\ exc' = "HTTPError"
                    /\ pc' = "leave"
                    /\ UNCHANGED httpcache
               ELSE /\ httpcache' = [httpcache EXCEPT !.rows = Append(@,
                           [file |-> httpcache.futures[i].result])]
                    /\ UNCHANGED <<exc, pc>>
    /\ UNCHANGED poolFrame

\* lines 209-211: leaving the with block waits for every submitted call
PoolLeave ==
    /\ pc = "leave"
    /\ \A k \in 1..Len(httpcache.futures) : httpcache.futures[k].at = "done"
    /\ pc' = "exit"
    /\ UNCHANGED <<exc, httpcache, poolFrame>>

PoolNext ==
    \/ PoolSubmit
    \/ \E k \in 1..Len(httpcache.futures) :
           \/ WorkerStart(k)
           \/ \E response \in Responses : WorkerRequest(k, response)
           \/ WorkerWriteContent(k)
           \/ WorkerWriteMetadata(k)
           \/ WorkerRevalidate(k)
    \/ PoolRow
    \/ PoolLeave

SpecHttpPool == PoolInit /\ [][PoolNext]_vars

\* C38 (as claimed): whatever urls are asked for, more than once too, and
\* however the workers interleave, no two workers write the same content
\* file or metadata file, and no such file is written more than once in the
\* invocation.
C38_FilesWrittenOnce ==
    \A i, j \in 1..Len(httpcache.written) :
        httpcache.written[i].file = httpcache.written[j].file => i = j

\* the urls asked for: the arguments, or the lines of stdin for "-"
Requested == IF args.url[1] = "-" THEN httpcache.stdin ELSE args.url

\* C39 (as claimed): the command writes exactly one row for each url asked
\* for, in the order of the input, and the row of a url carries that url
\* (csv) and the result of its own download, for urls given as arguments and
\* for urls read from stdin.
C39_OneRowPerUrl ==
    pc = "exit" =>
        /\ Len(httpcache.rows) = Len(Requested)
        /\ \A i \in 1..Len(httpcache.rows) :
               /\ httpcache.futures[i].url = Requested[i]
               /\ args.output_format = "csv" => httpcache.rows[i].url = Requested[i]
               /\ httpcache.rows[i].file =
                      IF Failed(httpcache.futures[i]) THEN ""
                      ELSE httpcache.futures[i].result

====
